---- MODULE Spec2Model ----
(***************************************************************************)
(* Operator learning and predicate invention of predicators:               *)
(*   src/src/operator_learning.py                                           *)
(*   src/src/approaches/iterative_invention_approach.py                     *)
(* Objects are integers (sorted(objects) is the integer order), variables  *)
(* ?x0, ?x1, ... are the integers 0, 1, ...; every object has one type and  *)
(* one feature.  A predicate is a record of its name, its arity and its     *)
(* classifier, the classifier being the set of feature vectors it accepts.  *)
(* An atom carries the predicate's name and its argument tuple; a wrapped   *)
(* atom carries in addition the prefix put in front of the name.            *)
(***************************************************************************)
EXTENDS Integers, Sequences, FiniteSets, TLC

VARIABLES
    pc,                     \* position of the running procedure
    mode,                   \* the entry point that runs: "learn", "sampler_data", "invent", "unify", "sampler", "interactive", "reload", "active"
    dataset,                \* the Dataset: one trajectory [states, options]
    predicates,             \* the predicate set transitions were abstracted with
    transitions_by_option,  \* dict ParameterizedOption -> list of Transition, in insertion order
    do_sampler_learning,    \* argument of learn_operators_for_option
    scan,                   \* the order in which the options are visited
    cur,                    \* position in scan
    t_idx,                  \* _partition_transitions: index of the next transition
    option_args,            \* _partition_transitions: List[List[Variable]]
    add_effects,            \* _partition_transitions: List[Set[LiftedAtom]]
    delete_effects,         \* _partition_transitions: List[Set[LiftedAtom]]
    partitions,             \* _partition_transitions: List[List[(Transition, ObjToVarSub)]]
    part_idx,               \* learn_operators_for_option: index i of the partition loop
    operators,              \* learn_operators_for_option: the operators list
    all_operators,          \* learn_operators_from_data: the operators list
    unify_cache,            \* the lru_cache of _unify
    error,                  \* the assertion that failed, "" when none
    sd,                     \* arguments and result of a direct _create_sampler_data call
    u_in,                   \* arguments of a direct _unify call
    u_out,                  \* its result
    learned_predicates,     \* IterativeInventionApproach._learned_predicates
    num_inventions,         \* IterativeInventionApproach._num_inventions
    op_scan,                \* _invent_for_some_operator: the order the operators are visited in
    op_cur,                 \* position in op_scan
    smp,                    \* _LearnedSampler.sampler: the locals of a call
    accept_score,           \* CFG.iterative_invention_accept_score, in hundredths
    inv,                    \* the invention iteration: options scanned, operators tried, last _invent_for_operator call
    rng,                    \* the seeded generator: the seed, the draws made, the values drawn
    interactive,            \* InteractiveLearningApproach and its _Teacher
    min_data_for_operator   \* CFG.min_data_for_operator

vars == <<pc, mode, dataset, predicates, transitions_by_option,
          do_sampler_learning, scan, cur, t_idx,
          option_args, add_effects, delete_effects, partitions, part_idx,
          operators, all_operators, unify_cache, error, sd, u_in, u_out,
          learned_predicates, num_inventions, op_scan, op_cur, smp, accept_score,
          inv, rng, interactive, min_data_for_operator>>

---------------------------------------------------------------------------
(* Bounds of the model. *)

\* longest trajectory of one ParameterizedOption, in option steps
MaxSteps == 3

\* longest trajectory that mixes the ParameterizedOptions
MaxMixedSteps == 2

---------------------------------------------------------------------------
(* The world: objects, states, options, predicates. *)

Objects == {1, 2}

FeatureValues == {0, 1}

\* the object sets a trajectory may have
ObjectSets == {{1}, {1, 2}}

\* State: mapping from Object to its feature vector (one feature per object)
StatesOver(objs) == [objs -> FeatureValues]

\* the argument count of each ParameterizedOption
OptionTypes == [Pick |-> 1, Move |-> 0]

\* params_space.shape[0] of each ParameterizedOption
ParamsDim == [Pick |-> 1, Move |-> 1]

\* the values CFG.min_data_for_operator is configured with
MinDataValues == {1, 2}

ParamOptions == DOMAIN OptionTypes

\* _Option: a ParameterizedOption grounded on objects
GroundOptionsOver(objs) ==
    {[parent |-> "Pick", objects |-> <<o>>] : o \in objs}
        \cup {[parent |-> "Move", objects |-> << >>]}

Pred0 == [name |-> <<"Pred0", 0>>, arity |-> 1, clf |-> {<<1>>}]

On == [name |-> <<"On", 0>>, arity |-> 2, clf |-> {<<0, 1>>}]

Pred1 == [name |-> <<"Pred1", 0>>, arity |-> 1, clf |-> {<<0>>}]

\* the initial predicate sets an approach may be constructed with
InitialPredicates == {{Pred0, Pred1}, {Pred0, On}}

---------------------------------------------------------------------------
(* Helpers on sets and sequences. *)

Range(f) == {f[x] : x \in DOMAIN f}

Min(S) == CHOOSE x \in S : \A y \in S : x <= y

RECURSIVE Sorted(_)
\* sorted(S) for a set of integers
Sorted(S) == IF S = {} THEN << >> ELSE <<Min(S)>> \o Sorted(S \ {Min(S)})

\* rng.permutation(n), as a sequence over 1..n
RngPermutations(n) == {q \in [1..n -> 1..n] : \A i, j \in 1..n : q[i] = q[j] => i = j}

\* the tuples of n distinct objects: get_object_combinations(allow_duplicates=False)
ObjectCombinations(objs, n) ==
    {c \in [1..n -> objs] : \A i, j \in 1..n : c[i] = c[j] => i = j}

\* State.vec(objects): the concatenated features of the objects
Vec(state, objs) == [i \in DOMAIN objs |-> state[objs[i]]]

\* Predicate.holds(state, objects)
Holds(pred, state, objs) == Vec(state, objs) \in pred.clf

Atom(pred, args) == [pred |-> pred.name, args |-> args]

\* utils.abstract(state, preds): the atoms of every predicate that hold in the
\* state, over every combination of distinct objects
Abstract(state, preds) ==
    UNION {{Atom(p, c) : c \in {d \in ObjectCombinations(DOMAIN state, p.arity) :
                                    Holds(p, state, d)}} : p \in preds}

AtomObjects(atoms) == UNION {Range(a.args) : a \in atoms}

\* atom.lift(sub) and atom.ground(sub): the arguments mapped through sub
Substitute(atom, sub) == [atom EXCEPT !.args = [i \in DOMAIN atom.args |-> sub[atom.args[i]]]]

SubstituteAll(atoms, sub) == {Substitute(a, sub) : a \in atoms}

\* utils.wrap_atom_predicates_ground / _lifted: prefix in front of the predicate name
WrapAtomPredicates(atoms, prefix) ==
    {[prefix |-> prefix, pred |-> a.pred, args |-> a.args] : a \in atoms}

---------------------------------------------------------------------------
(* Unification. *)

Injective(f) == \A x, y \in DOMAIN f : f[x] = f[y] => x = y

\* the inverse of an injective substitution
Inverse(f) == [v \in Range(f) |-> CHOOSE x \in DOMAIN f : f[x] = v]

\* utils.unify(ground_atoms, lifted_atoms): every substitution Object -> Variable
\* that is a bijection between the objects and the variables that appear and
\* lifts the ground atom set to exactly the lifted atom set; unification
\* succeeds when there is one
UnifySubs(ground_atoms, lifted_atoms) ==
    {s \in [AtomObjects(ground_atoms) -> AtomObjects(lifted_atoms)] :
        Injective(s) /\ SubstituteAll(ground_atoms, s) = lifted_atoms}

OptArgsAtom(option_objs) == [prefix |-> "", pred |-> <<"OPT-ARGS", 0>>, args |-> option_objs]

\* _unify, lines 204-223: one atom set out of the option arguments, the add
\* effects and the delete effects, each under its own predicate name
TaggedAtomsSamePrefix(adds, dels, option_objs) ==
    {OptArgsAtom(option_objs)} \cup WrapAtomPredicates(adds, "ADD-")
        \cup WrapAtomPredicates(dels, "ADD-")

TaggedAtoms(adds, dels, option_objs) ==
    {OptArgsAtom(option_objs)} \cup WrapAtomPredicates(adds, "ADD-")
        \cup WrapAtomPredicates(dels, "DEL-")

UnifyKey(ga, gd, goa, la, ld, loa) == <<ga, gd, goa, la, ld, loa>>

\* _unify without its cache: the substitutions utils.unify may return
_unify(ga, gd, goa, la, ld, loa) ==
    UnifySubs(TaggedAtoms(ga, gd, goa), TaggedAtoms(la, ld, loa))

\* _unify under functools.lru_cache: a call with cached arguments returns the
\* cached substitution, any other call one of the unifying substitutions
\* (the empty set: unification fails)
CachedUnify(cache, ga, gd, goa, la, ld, loa) ==
    LET key == UnifyKey(ga, gd, goa, la, ld, loa)
        hits == {e \in cache : e.key = key}
    IN  IF hits # {} THEN {e.sub : e \in hits}
        ELSE _unify(ga, gd, goa, la, ld, loa)

CacheAdd(cache, ga, gd, goa, la, ld, loa, sub) ==
    cache \cup {[key |-> UnifyKey(ga, gd, goa, la, ld, loa), sub |-> sub]}

---------------------------------------------------------------------------
(* generate_transitions. *)

\* the Transition of one option step under the given predicates
DeleteEffectsAllAtoms(atoms, next_atoms) == atoms

DeleteEffects(atoms, next_atoms) == atoms \ next_atoms

AddEffects(atoms, next_atoms) == next_atoms \ atoms

MakeTransition(state, next_state, atoms, option, next_atoms) ==
    [state |-> state, next_state |-> next_state, atoms |-> atoms,
     option |-> option, next_atoms |-> next_atoms,
     add_effects |-> AddEffects(atoms, next_atoms),
     delete_effects |-> DeleteEffects(atoms, next_atoms)]

\* transitions_by_option[option.parent].append(transition) on a defaultdict(list)
AppendTransition(tbo, parent, transition) ==
    IF \E k \in DOMAIN tbo : tbo[k].option = parent
    THEN LET k == CHOOSE k \in DOMAIN tbo : tbo[k].option = parent
         IN  [tbo EXCEPT ![k].transitions = Append(@, transition)]
    ELSE Append(tbo, [option |-> parent, transitions |-> <<transition>>])

RECURSIVE generate_transitions_from(_, _, _, _)
generate_transitions_from(ds, preds, i, tbo) ==
    IF i > Len(ds.options) THEN tbo
    ELSE generate_transitions_from(ds, preds, i + 1,
            AppendTransition(tbo, ds.options[i].parent,
                MakeTransition(ds.states[i], ds.states[i + 1],
                               Abstract(ds.states[i], preds), ds.options[i],
                               Abstract(ds.states[i + 1], preds))))

generate_transitions(ds, preds) == generate_transitions_from(ds, preds, 1, << >>)

\* the trajectories of n option steps, len(states) = len(options) + 1
Trajectories(objs, options, n) ==
    [states : [1..(n + 1) -> StatesOver(objs)], options : [1..n -> options]]

\* the datasets: one trajectory, of any options up to MaxMixedSteps steps and
\* of one ParameterizedOption up to MaxSteps steps
Datasets ==
    UNION {UNION {Trajectories(objs, GroundOptionsOver(objs), n) : n \in 1..MaxMixedSteps}
            \cup UNION {Trajectories(objs, {o \in GroundOptionsOver(objs) : o.parent = p}, n) :
                            n \in 1..MaxSteps, p \in ParamOptions} :
           objs \in ObjectSets}

---------------------------------------------------------------------------
(* _partition_transitions, one transition per step. *)

TransObjects(tr) ==
    AtomObjects(tr.add_effects \cup tr.delete_effects) \cup Range(tr.option.objects)

\* the substitution of a new partition: the sorted objects onto ?x0, ?x1, ...
NewPartitionSub(tr) ==
    LET objects_lst == Sorted(TransObjects(tr))
    IN  [o \in TransObjects(tr) |->
            (CHOOSE i \in DOMAIN objects_lst : objects_lst[i] = o) - 1]

\* a delete effect must unify too: a mutant that unifies the add effects only
UnifyWithPartitionAddOnly(cache, tr, oargs, adds, dels, i) ==
    CachedUnify(cache, tr.add_effects, {}, tr.option.objects, adds[i], {}, oargs[i])

\* the substitutions _unify may return for the transition against partition i
UnifyWithPartition(cache, tr, oargs, adds, dels, i) ==
    CachedUnify(cache, tr.add_effects, tr.delete_effects, tr.option.objects,
                adds[i], dels[i], oargs[i])

\* range(1, len(partitions)): a mutant that never tries the first partition
MatchingPartitionsSkipFirst(cache, tr, oargs, adds, dels) ==
    {i \in DOMAIN adds : i > 1 /\ UnifyWithPartition(cache, tr, oargs, adds, dels, i) # {}}

\* the partitions the transition unifies with
MatchingPartitions(cache, tr, oargs, adds, dels) ==
    {i \in DOMAIN adds : UnifyWithPartition(cache, tr, oargs, adds, dels, i) # {}}

LastMatch(matching) == CHOOSE i \in matching : \A j \in matching : j <= i

\* the partition the for loop breaks at
FirstMatch(matching) == Min(matching)

---------------------------------------------------------------------------
(* _learn_preconditions. *)

\* the substitutions _unify may return for a member against the partition's
\* lifted effects and option variables
MemberUnify(cache, m, ovars, adds, dels) ==
    CachedUnify(cache, m.transition.add_effects, m.transition.delete_effects,
                m.transition.option.objects, adds, dels, ovars)

MemberKey(m, ovars, adds, dels) ==
    UnifyKey(m.transition.add_effects, m.transition.delete_effects,
             m.transition.option.objects, adds, dels, ovars)

\* the results of the loop's _unify calls, one substitution per member: equal
\* arguments get the cached result
UnifyChoices(cache, part, ovars, adds, dels) ==
    LET all == UNION {MemberUnify(cache, part[j], ovars, adds, dels) : j \in DOMAIN part}
    IN  {ch \in [DOMAIN part -> all] :
            /\ \A j \in DOMAIN part : ch[j] \in MemberUnify(cache, part[j], ovars, adds, dels)
            /\ \A j, k \in DOMAIN part :
                 MemberKey(part[j], ovars, adds, dels) = MemberKey(part[k], ovars, adds, dels)
                    => ch[j] = ch[k]}

\* assert suc, for every member
AllMembersUnify(cache, part, ovars, adds, dels) ==
    \A j \in DOMAIN part : MemberUnify(cache, part[j], ovars, adds, dels) # {}

\* the atoms of the state over objects of the effects or the option, lifted
LiftedAtomsNoFilter(tr, sub) ==
    SubstituteAll({a \in tr.atoms : Range(a.args) \subseteq DOMAIN sub}, sub)

LiftedAtoms(tr, sub) ==
    SubstituteAll({a \in tr.atoms : Range(a.args) \subseteq TransObjects(tr)}, sub)

RECURSIVE IntersectAll(_, _)
\* preconditions &= lifted_atoms, over the members
IntersectAll(part, ch) ==
    IF Len(part) = 1 THEN LiftedAtoms(part[1].transition, ch[1])
    ELSE IntersectAll(SubSeq(part, 1, Len(part) - 1), ch)
            \cap LiftedAtoms(part[Len(part)].transition, ch[Len(part)])

PreconditionsOfFirst(part, ch) == LiftedAtoms(part[1].transition, ch[1])

Preconditions(part, ch) == IntersectAll(part, ch)

\* assert variables == sorted(set(sub.values())), for every member after the first
SameVariables(part, ch) ==
    \A j \in DOMAIN part : Sorted(Range(ch[j])) = Sorted(Range(ch[1]))

---------------------------------------------------------------------------
(* _create_sampler_data. *)

\* zip(variables, grounding)
ZipSub(variables, grounding) ==
    [v \in Range(variables) |->
        grounding[CHOOSE k \in DOMAIN variables : variables[k] = v]]

\* a mutant that takes the recorded grounding to be the sorted objects
ActualGroundingSorted(m, variables) ==
    [k \in DOMAIN variables |-> Sorted(DOMAIN m.sub)[k]]

\* [var_to_obj[var] for var in variables], var_to_obj the inverted recorded substitution
ActualGrounding(m, variables) ==
    [k \in DOMAIN variables |-> Inverse(m.sub)[variables[k]]]

Groundings(m, variables) ==
    ObjectCombinations(DOMAIN m.transition.state, Len(variables))

\* the positive branch is taken: the target partition and the recorded grounding
IsActual(parts, variables, partition_idx, idx, j, g) ==
    idx = partition_idx /\ g = ActualGrounding(parts[idx][j], variables)

PositiveData(parts, variables, partition_idx) ==
    UNION {UNION {
        {[part |-> idx, member |-> j, grounding |-> g,
          state |-> parts[idx][j].transition.state,
          sub |-> Inverse(parts[idx][j].sub),
          option |-> parts[idx][j].transition.option] :
            g \in {h \in Groundings(parts[idx][j], variables) :
                    IsActual(parts, variables, partition_idx, idx, j, h)}} :
        j \in DOMAIN parts[idx]} : idx \in DOMAIN parts}

\* the filter of lines 270-274: the grounded effects are achieved by the transition
EffectsEqual(tr, adds, dels, sub) ==
    /\ SubstituteAll(adds, sub) = tr.add_effects
    /\ SubstituteAll(dels, sub) = tr.delete_effects

EffectsAchieved(tr, adds, dels, sub) ==
    /\ SubstituteAll(adds, sub) \subseteq tr.add_effects
    /\ SubstituteAll(dels, sub) \subseteq tr.delete_effects

NegativeData(parts, variables, adds, dels, partition_idx) ==
    UNION {UNION {
        {[part |-> idx, member |-> j, grounding |-> g,
          state |-> parts[idx][j].transition.state,
          sub |-> ZipSub(variables, g),
          option |-> parts[idx][j].transition.option] :
            g \in {h \in Groundings(parts[idx][j], variables) :
                    /\ ~IsActual(parts, variables, partition_idx, idx, j, h)
                    /\ ~EffectsAchieved(parts[idx][j].transition, adds, dels,
                                        ZipSub(variables, h))}} :
        j \in DOMAIN parts[idx]} : idx \in DOMAIN parts}

\* pre.predicate.holds(state, objects) of a ground atom
AtomHolds(atom, state, preds) ==
    \E p \in preds : p.name = atom.pred /\ Holds(p, state, atom.args)

\* the assertion of line 259: the preconditions hold in the state under the
\* recorded substitution, wherever the positive branch is taken
PreconditionsHold(parts, variables, preconditions, partition_idx, preds) ==
    \A j \in DOMAIN parts[partition_idx] :
        ActualGrounding(parts[partition_idx][j], variables)
                \in Groundings(parts[partition_idx][j], variables)
            => \A pre \in preconditions :
                   AtomHolds(Substitute(pre, Inverse(parts[partition_idx][j].sub)),
                             parts[partition_idx][j].transition.state, preds)

---------------------------------------------------------------------------
(* learn_operators_for_option: the body of the loop over the partitions. *)

\* sampler learning runs: _learn_sampler is called
LearnsSampler(option, sampler_learning) == sampler_learning /\ ParamsDim[option] # 0

\* a skip on too little data only
SkipPartitionSmallOnly(part, adds, dels) == Len(part) < min_data_for_operator

\* the partition is skipped: too little data, or empty effects
SkipPartition(part, adds, dels) ==
    \/ Len(part) < min_data_for_operator
    \/ (adds = {} /\ dels = {})

\* the operator learned for partition i when the _unify calls of
\* _learn_preconditions return ch, or the assertion that fails
learn_operator(option, sampler_learning, i, parts, oargs, adds, dels, ch, preds) ==
    LET variables == Sorted(Range(ch[1]))
        preconditions == Preconditions(parts[i], ch)
        learns == LearnsSampler(option, sampler_learning)
        op == [name |-> <<option, i - 1>>, parameters |-> variables,
               preconditions |-> preconditions,
               add_effects |-> adds[i], delete_effects |-> dels[i],
               option |-> option, option_vars |-> oargs[i],
               sampler |-> IF learns THEN "learned" ELSE "random",
               part |-> i, subs |-> ch]
    IN  IF ~SameVariables(parts[i], ch)
            THEN [error |-> "variables == sorted(set(sub.values()))", op |-> op]
        ELSE IF learns /\ ~PreconditionsHold(parts, variables, preconditions, i, preds)
            THEN [error |-> "pre.predicate.holds", op |-> op]
        ELSE IF learns /\ Cardinality(PositiveData(parts, variables, i)) # Len(parts[i])
            THEN [error |-> "len(positive_data) == len(transitions[partition_idx])", op |-> op]
        ELSE [error |-> "", op |-> op]

---------------------------------------------------------------------------
(* The procedures, step by step. *)

CurOption == transitions_by_option[scan[cur]].option

CurTransitions == transitions_by_option[scan[cur]].transitions

NoPartitions ==
    /\ option_args = << >>
    /\ add_effects = << >>
    /\ delete_effects = << >>
    /\ partitions = << >>

Idle ==
    /\ transitions_by_option = << >>
    /\ scan = << >>
    /\ cur = 0
    /\ t_idx = 0
    /\ NoPartitions
    /\ part_idx = 0
    /\ operators = << >>
    /\ all_operators = << >>
    /\ unify_cache = {}
    /\ error = ""
    /\ op_scan = << >>
    /\ op_cur = 0

NoUnifyCall == u_in = << >> /\ u_out = << >> /\ sd = << >> /\ smp = << >>

\* nothing is invented yet
NoInvention ==
    /\ learned_predicates = {}
    /\ num_inventions = 0
    /\ inv = [scanned |-> << >>, tried |-> << >>, call |-> << >>]
    /\ rng = << >>
    /\ interactive = << >>

\* the acceptance thresholds an approach may be configured with
AcceptScores == {50, 100}

\* learn_operators_from_data is called on a dataset
InitLearn ==
    /\ pc = "start"
    /\ mode = "learn"
    /\ min_data_for_operator \in MinDataValues
    /\ dataset \in Datasets
    /\ predicates \in InitialPredicates
    /\ do_sampler_learning = TRUE
    /\ Idle
    /\ NoUnifyCall
    /\ NoInvention
    /\ accept_score = 100

\* generate_transitions(dataset, predicates): learn_operators_from_data, line
\* 25, and IterativeInventionApproach.learn_from_offline_dataset, line 39
Generate ==
    /\ pc = "start"
    /\ transitions_by_option' = generate_transitions(dataset, predicates)
    /\ scan' = [k \in DOMAIN transitions_by_option' |-> k]
    /\ cur' = 1
    /\ pc' = IF mode = "invent" THEN "iterate" ELSE "option"
    /\ UNCHANGED <<mode, dataset, min_data_for_operator, predicates, do_sampler_learning, t_idx,
                   option_args, add_effects, delete_effects, partitions,
                   part_idx, operators, all_operators, unify_cache, error,
                   sd, u_in, u_out, learned_predicates, num_inventions,
                   op_scan, op_cur, smp, accept_score, inv, rng,
                   interactive>>

\* learn_operators_for_option is entered for the next option: the empty lists
\* of _partition_transitions
BeginOption ==
    /\ pc = "option"
    /\ cur <= Len(scan)
    /\ option_args' = << >>
    /\ add_effects' = << >>
    /\ delete_effects' = << >>
    /\ partitions' = << >>
    /\ operators' = << >>
    /\ t_idx' = 1
    /\ part_idx' = 0
    /\ pc' = "partition"
    /\ inv' = [inv EXCEPT !.call = << >>]
    /\ UNCHANGED <<mode, dataset, min_data_for_operator, predicates, transitions_by_option,
                   do_sampler_learning, scan, cur, all_operators,
                   unify_cache, error, sd, u_in, u_out, learned_predicates,
                   num_inventions, op_scan, op_cur, smp, accept_score, rng,
                   interactive>>

\* _partition_transitions: one pass of the loop over the transitions
PartitionStep ==
    /\ pc = "partition"
    /\ t_idx <= Len(CurTransitions)
    /\ LET tr == CurTransitions[t_idx]
           matching == MatchingPartitions(unify_cache, tr, option_args,
                                          add_effects, delete_effects)
       IN  IF matching # {}
           THEN LET i == FirstMatch(matching)
                IN  \E sub \in UnifyWithPartition(unify_cache, tr, option_args,
                                                  add_effects, delete_effects, i) :
                        /\ partitions' = [partitions EXCEPT
                                ![i] = Append(@, [transition |-> tr, sub |-> sub])]
                        /\ unify_cache' = CacheAdd(unify_cache, tr.add_effects,
                                tr.delete_effects, tr.option.objects,
                                add_effects[i], delete_effects[i], option_args[i], sub)
                        /\ UNCHANGED <<option_args, add_effects, delete_effects>>
           ELSE LET sub == NewPartitionSub(tr)
                IN  /\ option_args' = Append(option_args,
                            [k \in DOMAIN tr.option.objects |-> sub[tr.option.objects[k]]])
                    /\ add_effects' = Append(add_effects, SubstituteAll(tr.add_effects, sub))
                    /\ delete_effects' = Append(delete_effects,
                                                SubstituteAll(tr.delete_effects, sub))
                    /\ partitions' = Append(partitions, <<[transition |-> tr, sub |-> sub]>>)
                    /\ UNCHANGED unify_cache
    /\ t_idx' = t_idx + 1
    /\ pc' = IF t_idx = Len(CurTransitions) THEN "operators" ELSE "partition"
    /\ part_idx' = IF t_idx = Len(CurTransitions) THEN 1 ELSE 0
    /\ UNCHANGED <<mode, dataset, min_data_for_operator, predicates, transitions_by_option,
                   do_sampler_learning, scan, cur, operators, all_operators,
                   error, sd, u_in, u_out, learned_predicates,
                   num_inventions, op_scan, op_cur, smp, accept_score, inv, rng,
                   interactive>>

\* where control goes after the last partition of an option: to the next
\* option of learn_operators_from_data, or to the loop of
\* _invent_for_some_operator over a permutation of the operators
AfterOperators(ops) ==
    IF mode = "learn"
    THEN /\ all_operators' = all_operators \o ops
         /\ cur' = cur + 1
         /\ pc' = IF cur = Len(scan) THEN "done" ELSE "option"
         /\ UNCHANGED <<op_scan, op_cur>>
    ELSE /\ pc' = "invent"
         /\ op_scan' \in RngPermutations(Len(ops))
         /\ op_cur' = 1
         /\ UNCHANGED <<all_operators, cur>>

\* after partition part_idx
NextPartition(ops) ==
    /\ operators' = ops
    /\ error' = error
    /\ IF part_idx = Len(partitions)
       THEN /\ part_idx' = 0
            /\ AfterOperators(ops)
       ELSE /\ part_idx' = part_idx + 1
            /\ UNCHANGED <<pc, all_operators, cur, op_scan, op_cur>>

AssertionFails(what) ==
    /\ pc' = "error"
    /\ error' = what
    /\ UNCHANGED <<operators, all_operators, cur, part_idx, op_scan, op_cur>>

\* learn_operators_for_option: one pass of the loop over the partitions
LearnOperatorStep ==
    /\ pc = "operators"
    /\ LET i == part_idx
       IN  IF SkipPartition(partitions[i], add_effects[i], delete_effects[i])
           THEN NextPartition(operators) /\ UNCHANGED unify_cache
           ELSE IF ~AllMembersUnify(unify_cache, partitions[i], option_args[i],
                                    add_effects[i], delete_effects[i])
           THEN AssertionFails("suc") /\ UNCHANGED unify_cache
           ELSE \E ch \in UnifyChoices(unify_cache, partitions[i], option_args[i],
                                       add_effects[i], delete_effects[i]) :
                    \E res \in {learn_operator(CurOption, do_sampler_learning, i,
                                   partitions, option_args, add_effects,
                                   delete_effects, ch, predicates)} :
                        /\ unify_cache' = unify_cache \cup
                            {[key |-> MemberKey(partitions[i][j], option_args[i],
                                                add_effects[i], delete_effects[i]),
                              sub |-> ch[j]] : j \in DOMAIN partitions[i]}
                        /\ IF res.error # "" THEN AssertionFails(res.error)
                           ELSE NextPartition(Append(operators, res.op))
    /\ inv' = IF mode = "invent" /\ pc' = "invent"
              THEN [inv EXCEPT !.scanned = Append(@, [option |-> scan[cur],
                                                      n_ops |-> Len(operators')])]
              ELSE inv
    /\ UNCHANGED <<mode, dataset, min_data_for_operator, predicates, transitions_by_option,
                   do_sampler_learning, scan, t_idx, option_args, add_effects,
                   delete_effects, partitions, sd, u_in, u_out,
                   learned_predicates, num_inventions, smp, accept_score, rng,
                   interactive>>

NextLearn == Generate \/ BeginOption \/ PartitionStep \/ LearnOperatorStep

\* OperatorLearningApproach: learn_operators_from_data on any dataset
Spec == InitLearn /\ [][NextLearn]_vars

---------------------------------------------------------------------------
(* _learn_preconditions and _create_sampler_data called directly on any      *)
(* partition of an option, as tests/test_sampler_learning.py does.           *)

InitSamplerData ==
    /\ pc = "start"
    /\ mode = "sampler_data"
    /\ min_data_for_operator = 1
    /\ dataset \in Datasets
    /\ predicates \in InitialPredicates
    /\ do_sampler_learning = TRUE
    /\ Idle
    /\ NoUnifyCall
    /\ NoInvention
    /\ accept_score = 100

\* _learn_preconditions(option_args[i], add_effects[i], delete_effects[i],
\* partitions[i]) on any partition i
LearnPreconditionsCall ==
    /\ pc = "operators"
    /\ mode = "sampler_data"
    /\ \E i \in DOMAIN partitions :
        IF ~AllMembersUnify(unify_cache, partitions[i], option_args[i],
                            add_effects[i], delete_effects[i])
        THEN /\ pc' = "error"
             /\ error' = "suc"
             /\ UNCHANGED <<sd, unify_cache>>
        ELSE \E ch \in UnifyChoices(unify_cache, partitions[i], option_args[i],
                                    add_effects[i], delete_effects[i]) :
                /\ sd' = [partition_idx |-> i, subs |-> ch,
                          variables |-> Sorted(Range(ch[1])),
                          preconditions |-> Preconditions(partitions[i], ch)]
                /\ unify_cache' = unify_cache \cup
                        {[key |-> MemberKey(partitions[i][j], option_args[i],
                                            add_effects[i], delete_effects[i]),
                          sub |-> ch[j]] : j \in DOMAIN partitions[i]}
                /\ error' = IF SameVariables(partitions[i], ch) THEN ""
                            ELSE "variables == sorted(set(sub.values()))"
                /\ pc' = IF error' = "" THEN "preconditions" ELSE "error"
    /\ UNCHANGED <<mode, dataset, min_data_for_operator, predicates, transitions_by_option,
                   do_sampler_learning, scan, cur, t_idx, option_args,
                   add_effects, delete_effects, partitions, part_idx,
                   operators, all_operators, u_in, u_out, learned_predicates,
                   num_inventions, op_scan, op_cur, smp, accept_score, inv, rng,
                   interactive>>

\* _create_sampler_data(partitions, variables, preconditions, add_effects[i],
\* delete_effects[i], param_option, i) with the result of _learn_preconditions
SamplerDataCall ==
    /\ pc = "preconditions"
    /\ LET i == sd.partition_idx
           positive_data == PositiveData(partitions, sd.variables, i)
           negative_data == NegativeData(partitions, sd.variables,
                                         add_effects[i], delete_effects[i], i)
       IN  /\ sd' = [partition_idx |-> i, subs |-> sd.subs,
                     variables |-> sd.variables,
                     preconditions |-> sd.preconditions,
                     positive_data |-> positive_data,
                     negative_data |-> negative_data]
           /\ error' =
                IF ~PreconditionsHold(partitions, sd.variables, sd.preconditions,
                                      i, predicates)
                    THEN "pre.predicate.holds"
                ELSE IF Cardinality(positive_data) # Len(partitions[i])
                    THEN "len(positive_data) == len(transitions[partition_idx])"
                ELSE ""
           /\ pc' = IF error' = "" THEN "sampler_data" ELSE "error"
    /\ UNCHANGED <<mode, dataset, min_data_for_operator, predicates, transitions_by_option,
                   do_sampler_learning, scan, cur, t_idx, option_args,
                   add_effects, delete_effects, partitions, part_idx,
                   operators, all_operators, unify_cache, u_in, u_out,
                   learned_predicates, num_inventions, op_scan, op_cur, smp, accept_score, inv, rng,
                   interactive>>

NextSamplerData ==
    Generate \/ BeginOption \/ PartitionStep \/ LearnPreconditionsCall \/ SamplerDataCall

SpecSamplerData == InitSamplerData /\ [][NextSamplerData]_vars

\* longest trajectory over objects with two features
MaxWideSteps == 2

\* the vectors of an object with two binary features
WideFeatureValues == 0..3

\* the first feature is set
Bit0 == [name |-> <<"Bit0", 0>>, arity |-> 1, clf |-> {<<1>>, <<3>>}]

\* the second feature is set
Bit1 == [name |-> <<"Bit1", 0>>, arity |-> 1, clf |-> {<<2>>, <<3>>}]

\* one trajectory of an option without arguments over two objects
WideDatasets ==
    UNION {[states : [1..(n + 1) -> [Objects -> WideFeatureValues]],
            options : [1..n -> {[parent |-> "Move", objects |-> << >>]}]] :
           n \in 1..MaxWideSteps}

\* the same calls on transitions whose effects may unify in more than one way
\* while the states tell the objects apart
InitWide ==
    /\ pc = "start"
    /\ mode = "sampler_data"
    /\ min_data_for_operator = 1
    /\ dataset \in WideDatasets
    /\ predicates = {Bit0, Bit1}
    /\ do_sampler_learning = TRUE
    /\ Idle
    /\ NoUnifyCall
    /\ NoInvention
    /\ accept_score = 100

SpecWide == InitWide /\ [][NextSamplerData]_vars

---------------------------------------------------------------------------
(* _unify called directly, on any effects and option arguments. *)

Variables == {0, 1}

\* the atoms of the initial predicates over objects, or over variables
AtomsOver(terms) ==
    {[pred |-> Pred0.name, args |-> <<x>>] : x \in terms}
        \cup {[pred |-> On.name, args |-> c] : c \in ObjectCombinations(terms, 2)}

OptionArgsOver(terms) == {<< >>} \cup {<<x>> : x \in terms}

\* any effects over objects and over variables, any option arguments
UnifyInputs ==
    [ga : SUBSET AtomsOver(Objects), gd : SUBSET AtomsOver(Objects),
     goa : OptionArgsOver(Objects),
     la : SUBSET AtomsOver(Variables), ld : SUBSET AtomsOver(Variables),
     loa : OptionArgsOver(Variables)]

\* add effects and delete effects are disjoint, the option arguments of both
\* sides are those of one ParameterizedOption
InitUnify ==
    /\ pc = "unify_call"
    /\ mode = "unify"
    /\ min_data_for_operator = 1
    /\ dataset = << >>
    /\ predicates = {Pred0, On}
    /\ do_sampler_learning = FALSE
    /\ Idle
    /\ sd = << >>
    /\ smp = << >>
    /\ NoInvention
    /\ accept_score = 100
    /\ u_in \in UnifyInputs
    /\ u_in.ga \cap u_in.gd = {}
    /\ u_in.la \cap u_in.ld = {}
    /\ Len(u_in.goa) = Len(u_in.loa)
    /\ u_out = << >>

\* one call of _unify
UnifyCall ==
    /\ pc \in {"unify_call", "unify_again"}
    /\ LET subs == CachedUnify(unify_cache, u_in.ga, u_in.gd, u_in.goa,
                               u_in.la, u_in.ld, u_in.loa)
       IN  IF subs = {}
           THEN /\ u_out' = [suc |-> FALSE, sub |-> << >>]
                /\ UNCHANGED unify_cache
           ELSE \E sub \in subs :
                    /\ u_out' = [suc |-> TRUE, sub |-> sub]
                    /\ unify_cache' = CacheAdd(unify_cache, u_in.ga, u_in.gd, u_in.goa,
                                               u_in.la, u_in.ld, u_in.loa, sub)
    /\ pc' = IF pc = "unify_call" THEN "unify_again" ELSE "unify_done"
    /\ UNCHANGED <<mode, dataset, min_data_for_operator, predicates, transitions_by_option,
                   do_sampler_learning, scan, cur, t_idx, option_args,
                   add_effects, delete_effects, partitions, part_idx,
                   operators, all_operators, error, sd, u_in,
                   learned_predicates, num_inventions, op_scan, op_cur, smp, accept_score, inv, rng,
                   interactive>>

\* _unify on any arguments, called twice
SpecUnify == InitUnify /\ [][UnifyCall]_vars

---------------------------------------------------------------------------
(* IterativeInventionApproach: learn_from_offline_dataset. *)

\* the most inventions a run is followed for
MaxInventions == 3

\* the datasets an invention run is given: one trajectory of any options, up
\* to MaxMixedSteps steps, or up to MaxSteps steps when over a single object
InventDatasets ==
    UNION {UNION {Trajectories(objs, GroundOptionsOver(objs), n) :
                    n \in 1..(IF Cardinality(objs) = 1 THEN MaxSteps ELSE MaxMixedSteps)} :
           objs \in ObjectSets}

\* Predicate.get_negation(): the classifier negated, "NOT-" in front of the name
GetNegation(pred) ==
    [name |-> <<"NOT-" \o pred.name[1], pred.name[2]>>, arity |-> pred.arity,
     clf |-> [1..pred.arity -> FeatureValues] \ pred.clf]

\* lines 102-112: the operator's preconditions, effects and option variables
\* as one lifted atom set
OperatorLifteds(operator) ==
    WrapAtomPredicates(operator.preconditions, "PRE-")
        \cup WrapAtomPredicates(operator.add_effects, "ADD-")
        \cup WrapAtomPredicates(operator.delete_effects, "DEL-")
        \cup {OptArgsAtom(operator.option_vars)}

\* utils.get_all_groundings(lifteds, objects): the substitutions of the
\* variables by distinct objects
AllGroundings(variables, objs) ==
    {ZipSub(variables, g) : g \in ObjectCombinations(objs, Len(variables))}

\* the grounded preconditions and option arguments are all of the
\* transition's atoms and its option's arguments
GroundingHoldsExactly(operator, tr, sub) ==
    {a \in SubstituteAll(OperatorLifteds(operator), sub) :
        a.pred = <<"OPT-ARGS", 0>> \/ a.prefix = "PRE-"}
    = WrapAtomPredicates(tr.atoms, "PRE-") \cup {OptArgsAtom(tr.option.objects)}

\* lines 140-145: the grounded preconditions and option arguments are among
\* the transition's atoms and its option's arguments
GroundingHolds(operator, tr, sub) ==
    {a \in SubstituteAll(OperatorLifteds(operator), sub) :
        a.pred = <<"OPT-ARGS", 0>> \/ a.prefix = "PRE-"}
    \subseteq WrapAtomPredicates(tr.atoms, "PRE-") \cup {OptArgsAtom(tr.option.objects)}

\* lines 158-159 with one of the two comparisons left out
PredictsAddEffectsOnly(operator, tr, sub) ==
    WrapAtomPredicates(tr.add_effects, "ADD-")
        = SubstituteAll(WrapAtomPredicates(operator.add_effects, "ADD-"), sub)

\* lines 158-159: the operator predicts the transition's effects
PredictsEffects(operator, tr, sub) ==
    /\ WrapAtomPredicates(tr.add_effects, "ADD-")
        = SubstituteAll(WrapAtomPredicates(operator.add_effects, "ADD-"), sub)
    /\ WrapAtomPredicates(tr.delete_effects, "DEL-")
        = SubstituteAll(WrapAtomPredicates(operator.delete_effects, "DEL-"), sub)

\* lines 127-162: one example per transition and grounding that holds for it,
\* positive when the operator predicts the effects
InventData(operator, trs) ==
    UNION {{[t |-> t, sub |-> sub, pos |-> PredictsEffects(operator, trs[t], sub)] :
                sub \in {g \in AllGroundings(operator.parameters, DOMAIN trs[t].state) :
                            GroundingHolds(operator, trs[t], g)}} :
           t \in DOMAIN trs}

\* utils.powerset(operator.parameters, exclude_empty=True)
ParamSubsets(parameters) == {Sorted(S) : S \in (SUBSET Range(parameters)) \ {{}}}

\* the order of the powerset: by size, then by position
Before(a, b) ==
    \/ Len(a) < Len(b)
    \/ /\ Len(a) = Len(b)
       /\ \E i \in DOMAIN a : a[i] < b[i] /\ \A j \in 1..(i - 1) : a[j] = b[j]

\* the classifiers a fitted MLPClassifier may be, on vectors of k features
Classifiers(k) == SUBSET [1..k -> FeatureValues]

RECURSIVE FitsOver(_)
\* one fitted classifier for every parameter subset
FitsOver(subsets) ==
    IF subsets = {} THEN {<< >>}
    ELSE LET params == CHOOSE q \in subsets : TRUE
         IN  {(params :> c) @@ f : c \in Classifiers(Len(params)),
                                   f \in FitsOver(subsets \ {params})}

\* state.vec(predicate_objects) of an example
ExampleVec(d, params, trs) ==
    Vec(trs[d.t].state, [i \in DOMAIN params |-> d.sub[params[i]]])

\* np.sum([model.classify(x) for x in X] == Y)
NumCorrect(clf, params, data, trs) ==
    Cardinality({d \in data : (ExampleVec(d, params, trs) \in clf) <=> d.pos})

\* the count of correctly classified examples of every classifier, by
\* parameter subset
CorrectCounts(subsets, data, trs) ==
    [q \in subsets |-> [c \in Classifiers(Len(q)) |-> NumCorrect(c, q, data, trs)]]

\* line 184 without the test: no classifier is rejected
FitAcceptedAlways(correct, n, score) == TRUE

\* line 184: not rejected, fit_score >= CFG.iterative_invention_accept_score
FitAccepted(correct, n, score) == ~(100 * correct < score * n)

\* line 188 without the regularizer
FitScoreOnly(correct, n, params) == 10 * correct

\* line 188, scaled by 10 * len(Y): fit_score - 0.1 * len(params)
RegularizedScore(correct, n, params) == 10 * correct - Len(params) * n

\* lines 174-200: the parameter subsets whose classifier is accepted, and the
\* first of them with the best score (<< >> when all are rejected)
BestParams(fit, counts, n) ==
    LET score(q) == RegularizedScore(counts[q][fit[q]], n, q)
        accepted == {q \in DOMAIN fit : FitAccepted(counts[q][fit[q]], n, accept_score)}
    IN  IF accepted = {} THEN << >>
        ELSE CHOOSE q \in accepted :
                \A r \in accepted \ {q} :
                    score(q) > score(r) \/ (score(q) = score(r) /\ Before(q, r))

\* line 194: the predicate of the best classifier
InventedPredicate(k, params, clf) ==
    [name |-> <<"InventedPredicate", k>>, arity |-> Len(params), clf |-> clf]

\* lines 171-205 for the fitted classifiers: the k-th predicate over the best
\* parameters, or None (no parameters)
InventionOutcome(fit, counts, n, k) ==
    LET best_params == BestParams(fit, counts, n)
    IN  [params |-> best_params,
         pred |-> IF best_params = << >> THEN << >>
                  ELSE InventedPredicate(k, best_params, fit[best_params])]

\* lines 51-53 without the negation
LearnedWithoutNegation(learned, new_predicate) == learned \cup {new_predicate}

\* lines 51-53: the new predicate and its negation join the learned predicates
LearnedWith(learned, new_predicate) ==
    learned \cup {new_predicate, GetNegation(new_predicate)}

\* lines 56-66 with the atoms after the step left as they were
ReabstractAtomsOnly(tbo, new_predicate) ==
    LET both == {new_predicate, GetNegation(new_predicate)}
    IN  [k \in DOMAIN tbo |->
            [option |-> tbo[k].option,
             transitions |->
                [i \in DOMAIN tbo[k].transitions |->
                    LET tr == tbo[k].transitions[i]
                    IN  MakeTransition(tr.state, tr.next_state,
                            tr.atoms \cup Abstract(tr.state, both), tr.option,
                            tr.next_atoms)]]]

\* lines 56-66: the new predicate and its negation are added to the atoms of
\* every stored transition, and the effects are computed again
Reabstract(tbo, new_predicate) ==
    LET both == {new_predicate, GetNegation(new_predicate)}
    IN  [k \in DOMAIN tbo |->
            [option |-> tbo[k].option,
             transitions |->
                [i \in DOMAIN tbo[k].transitions |->
                    LET tr == tbo[k].transitions[i]
                    IN  MakeTransition(tr.state, tr.next_state,
                            tr.atoms \cup Abstract(tr.state, both), tr.option,
                            tr.next_atoms \cup Abstract(tr.next_state, both))]]]

\* learn_from_offline_dataset is called on a dataset: any dataset when only a
\* perfect fit is accepted; a dataset of one object or of one option step
\* when a fit of one half is accepted
InitInvent ==
    /\ pc = "start"
    /\ mode = "invent"
    /\ min_data_for_operator = 1
    /\ dataset \in InventDatasets
    /\ predicates \in InitialPredicates
    /\ accept_score \in AcceptScores
    /\ accept_score = 100
        \/ Cardinality(DOMAIN dataset.states[1]) = 1
        \/ Len(dataset.options) = 1
    /\ do_sampler_learning = FALSE
    /\ Idle
    /\ NoUnifyCall
    /\ NoInvention

\* _invent_for_some_operator is entered: the options in a random order
InventForSomeOperator ==
    /\ pc = "iterate"
    /\ scan' \in RngPermutations(Len(transitions_by_option))
    /\ cur' = 1
    /\ pc' = "option"
    /\ inv' = [scanned |-> << >>, tried |-> << >>, call |-> << >>]
    /\ UNCHANGED <<mode, dataset, min_data_for_operator, predicates, transitions_by_option,
                   do_sampler_learning, t_idx, option_args, add_effects,
                   delete_effects, partitions, part_idx, operators,
                   all_operators, unify_cache, error, sd, u_in, u_out,
                   learned_predicates, num_inventions, op_scan, op_cur, smp, accept_score, rng,
                   interactive>>

\* _invent_for_operator returns None: the next operator
NoNewPredicate ==
    /\ op_cur' = op_cur + 1
    /\ UNCHANGED <<pc, cur, predicates, transitions_by_option, learned_predicates,
                   num_inventions, op_scan, error>>

\* lines 50-66 inside the scan: the predicate is taken and the scan goes on
AcceptAndContinue(new_predicate) ==
    /\ num_inventions < MaxInventions
    /\ learned_predicates' = LearnedWith(learned_predicates, new_predicate)
    /\ num_inventions' = num_inventions + 1
    /\ predicates' = LearnedWith(predicates, new_predicate)
    /\ transitions_by_option' = Reabstract(transitions_by_option, new_predicate)
    /\ op_cur' = op_cur + 1
    /\ UNCHANGED <<pc, cur, op_scan, error>>

\* _invent_for_operator returns a predicate: lines 50-66
AcceptPredicate(new_predicate) ==
    /\ num_inventions < MaxInventions
    /\ learned_predicates' = LearnedWith(learned_predicates, new_predicate)
    /\ num_inventions' = num_inventions + 1
    /\ predicates' = LearnedWith(predicates, new_predicate)
    /\ transitions_by_option' = Reabstract(transitions_by_option, new_predicate)
    /\ pc' = "iterate"
    /\ cur' = 0
    /\ op_scan' = << >>
    /\ op_cur' = 0
    /\ UNCHANGED error

\* _invent_for_operator(operator, transitions) as the k-th invention: what the
\* call finds and returns, for every classifier the fits may give. pos and
\* neg count the examples of each parameter subset, correct the examples the
\* subset's classifier is right on, result is the predicate returned (<< >>
\* for None), error the failure of the assertion of line 164.
InventCalls(op, operator, data, trs, k) ==
    LET subsets == ParamSubsets(operator.parameters)
        call == [op |-> op, data |-> data,
                 pos |-> [q \in subsets |-> Cardinality({d \in data : d.pos})],
                 neg |-> [q \in subsets |-> Cardinality({d \in data : ~d.pos})],
                 fitted |-> FALSE, correct |-> << >>,
                 params |-> << >>, result |-> << >>, error |-> FALSE]
    IN  IF operator.parameters = << >> THEN {call}
        ELSE IF ~\E d \in data : d.pos THEN {[call EXCEPT !.error = TRUE]}
        ELSE IF ~\E d \in data : ~d.pos THEN {call}
        ELSE LET counts == CorrectCounts(subsets, data, trs)
             IN  {LET best == InventionOutcome(fit, counts, Cardinality(data), k)
                  IN  [call EXCEPT !.fitted = TRUE,
                                   !.correct = [q \in subsets |-> counts[q][fit[q]]],
                                   !.params = best.params, !.result = best.pred] :
                  fit \in FitsOver(subsets)}

\* _invent_for_some_operator: one pass of the loop over the operators of the
\* current option, with what learn_from_offline_dataset does on a predicate
InventForOperator ==
    /\ pc = "invent"
    /\ IF op_cur > Len(op_scan)
       THEN /\ cur' = cur + 1
            /\ pc' = "option"
            /\ op_scan' = << >>
            /\ op_cur' = 0
            /\ inv' = [inv EXCEPT !.call = << >>]
            /\ UNCHANGED <<predicates, transitions_by_option, learned_predicates,
                           num_inventions, error>>
       ELSE \E data \in {InventData(operators[op_scan[op_cur]], CurTransitions)} :
            \E call \in InventCalls(op_scan[op_cur], operators[op_scan[op_cur]],
                                    data, CurTransitions, num_inventions) :
                /\ inv' = [inv EXCEPT !.call = call,
                                      !.tried = Append(@, [option |-> scan[cur],
                                                           op |-> call.op,
                                                           result |-> call.result])]
                /\ IF call.error
                   THEN /\ pc' = "error"
                        /\ error' = "How was this operator learned...?"
                        /\ UNCHANGED <<cur, predicates, transitions_by_option,
                                       learned_predicates, num_inventions, op_scan,
                                       op_cur>>
                   ELSE IF call.result = << >> THEN NoNewPredicate
                   ELSE AcceptPredicate(call.result)
    /\ UNCHANGED <<mode, dataset, min_data_for_operator, do_sampler_learning, scan, t_idx, option_args,
                   add_effects, delete_effects, partitions, part_idx, operators,
                   all_operators, unify_cache, sd, u_in, u_out, smp, accept_score,
                   rng, interactive>>

\* _invent_for_some_operator returns None: the loop breaks, and the operators
\* are learned with all the predicates (line 68)
InventionConverged ==
    /\ pc = "option"
    /\ mode = "invent"
    /\ cur > Len(scan)
    /\ mode' = "learn"
    /\ pc' = "start"
    /\ do_sampler_learning' = TRUE
    /\ inv' = [inv EXCEPT !.call = << >>]
    /\ UNCHANGED <<dataset, min_data_for_operator, predicates, transitions_by_option, scan, cur, t_idx,
                   option_args, add_effects, delete_effects, partitions,
                   part_idx, operators, all_operators, unify_cache, error, sd,
                   u_in, u_out, learned_predicates, num_inventions, op_scan,
                   op_cur, smp, accept_score, rng,
                   interactive>>

NextInvent ==
    \/ Generate
    \/ InventForSomeOperator
    \/ BeginOption
    \/ PartitionStep
    \/ LearnOperatorStep
    \/ InventForOperator
    \/ InventionConverged

\* IterativeInventionApproach: learn_from_offline_dataset on any dataset
SpecInvent == InitInvent /\ [][NextInvent]_vars

---------------------------------------------------------------------------
(* _LearnedSampler.sampler, one pass of its loop per step. *)

\* the largest CFG.max_rejection_sampling_tries a call is followed for
MaxRejectionTries == 2

\* the parameter vectors the regressor may draw
ParamCandidates == 0..3

\* those of them that lie in the option's params_space
ParamsSpace == {1, 2}

\* params_space.contains(params); no params are bound before the first draw
Contains(params) == params \in ParamsSpace

\* the loop condition with < for <=
ContinuesBelow(num_rejections, max_tries) == num_rejections < max_tries

\* line 359: while num_rejections <= CFG.max_rejection_sampling_tries
Continues(num_rejections, max_tries) == num_rejections <= max_tries

\* lines 362-363: the candidate is in bounds and classified positive
Accepts(classifier, params) == Contains(params) /\ params \in classifier

\* the sampler of an operator is called: any classifier, any configured number
\* of tries, and a generator whose seed makes it yield any stream of values
InitSampler ==
    /\ pc = "sample"
    /\ mode = "sampler"
    /\ min_data_for_operator = 1
    /\ dataset = << >>
    /\ predicates = {Pred0}
    /\ do_sampler_learning = TRUE
    /\ Idle
    /\ sd = << >>
    /\ u_in = << >>
    /\ u_out = << >>
    /\ learned_predicates = {}
    /\ num_inventions = 0
    /\ inv = [scanned |-> << >>, tried |-> << >>, call |-> << >>]
    /\ interactive = << >>
    /\ rng \in [stream : [1..(MaxRejectionTries + 1) -> ParamCandidates],
                pos : {0}, run : {1}, first : {<< >>}]
    /\ accept_score = 100
    /\ smp \in [max_rejection_sampling_tries : 0..MaxRejectionTries,
                classifier : SUBSET ParamCandidates,
                num_rejections : {0}, drawn : {<< >>}, params : {-1},
                sampled : {FALSE}]

\* regressor.predict_sample(x, rng): the next value of the generator decides
\* the candidate
PredictSample(generator) == generator.stream[generator.pos + 1]

\* lines 359-364: one pass of the loop, a candidate drawn from the regressor
\* with the generator passed to the sampler
SamplerDraw ==
    /\ pc = "sample"
    /\ Continues(smp.num_rejections, smp.max_rejection_sampling_tries)
    /\ \E params \in {PredictSample(rng)} :
        /\ smp' = [smp EXCEPT !.params = params,
                              !.drawn = Append(@, params),
                              !.num_rejections =
                                    IF Accepts(smp.classifier, params) THEN @ ELSE @ + 1]
        /\ pc' = IF Accepts(smp.classifier, params) THEN "returned" ELSE "sample"
    /\ rng' = [rng EXCEPT !.pos = @ + 1]
    /\ UNCHANGED <<mode, dataset, min_data_for_operator, predicates, transitions_by_option,
                   do_sampler_learning, scan, cur, t_idx, option_args,
                   add_effects, delete_effects, partitions, part_idx,
                   operators, all_operators, unify_cache, error, sd, u_in,
                   u_out, learned_predicates, num_inventions, op_scan, op_cur,
                   accept_score, inv, interactive>>

\* a fallback that draws from the regressor's range instead of the space
SampleUnbounded == ParamCandidates

\* params_space.sample(): a draw from the generator of the space, which the
\* seed of the run and the rng passed to the sampler do not reach
Sample == ParamsSpace

\* lines 365-371: the else of the loop, and the return
SamplerExhausted ==
    /\ pc = "sample"
    /\ ~Continues(smp.num_rejections, smp.max_rejection_sampling_tries)
    /\ IF ~Contains(smp.params)
       THEN \E params \in Sample :
                smp' = [smp EXCEPT !.params = params, !.sampled = TRUE]
       ELSE UNCHANGED smp
    /\ pc' = "returned"
    /\ UNCHANGED <<mode, dataset, min_data_for_operator, predicates, transitions_by_option,
                   do_sampler_learning, scan, cur, t_idx, option_args,
                   add_effects, delete_effects, partitions, part_idx,
                   operators, all_operators, unify_cache, error, sd, u_in,
                   u_out, learned_predicates, num_inventions, op_scan, op_cur,
                   accept_score, inv, rng,
                   interactive>>

NextSampler == SamplerDraw \/ SamplerExhausted

\* _LearnedSampler.sampler on any models
SpecSampler == InitSampler /\ [][NextSampler]_vars

\* an independent second run: the same sampler on the same state, with a
\* generator of the same seed
SecondRun ==
    /\ pc = "returned"
    /\ rng.run = 1
    /\ rng' = [rng EXCEPT !.pos = 0, !.run = 2, !.first = smp]
    /\ smp' = [smp EXCEPT !.num_rejections = 0, !.drawn = << >>, !.params = -1,
                          !.sampled = FALSE]
    /\ pc' = "sample"
    /\ UNCHANGED <<mode, dataset, min_data_for_operator, predicates, transitions_by_option,
                   do_sampler_learning, scan, cur, t_idx, option_args,
                   add_effects, delete_effects, partitions, part_idx,
                   operators, all_operators, unify_cache, error, sd, u_in,
                   u_out, learned_predicates, num_inventions, op_scan, op_cur,
                   accept_score, inv, interactive>>

NextTwoRuns == SamplerDraw \/ SamplerExhausted \/ SecondRun

\* _LearnedSampler.sampler run twice with the same seed
SpecTwoRuns == InitSampler /\ [][NextTwoRuns]_vars

---------------------------------------------------------------------------
(* InteractiveLearningApproach and its _Teacher: _load_dataset,             *)
(* _relearn_predicates_and_operators, _get_states_to_ask and _ask_teacher,   *)
(* called as tests/approaches/test_interactive_approach.py calls them.       *)
(* A dataset is here a list of trajectories, a trajectory the list of its    *)
(* states.                                                                   *)

\* the most states a dataset holds, over all its trajectories
MaxDataStates == 3

\* the predicate sets an environment may have
EnvPredicates == {{Pred0, On}, {Pred0, Pred1, On}}

\* CFG.interactive_known_predicates
KnownPredicateNames == {{}, {"Pred0"}}

\* CFG.teacher_dataset_label_ratio, in hundredths
LabelRatios == {0, 50, 100}

\* CFG.interactive_ask_strategy
AskStrategies == {"all_seen_states", "threshold", "top_k_percent", "foo"}

\* CFG.interactive_ask_strategy_threshold, in hundredths
AskThresholds == {0, 50, 100}

\* CFG.interactive_ask_strategy_pct
AskPercents == {0, 20, 50, 100}

RECURSIVE DatasetsOfStates(_)
\* the datasets whose trajectories hold k states in all
DatasetsOfStates(k) ==
    IF k = 0 THEN {<< >>}
    ELSE UNION {{<<ss>> \o rest : ss \in [1..n -> StatesOver(Objects)],
                                  rest \in DatasetsOfStates(k - n)} : n \in 1..k}

InteractiveDatasets == UNION {DatasetsOfStates(k) : k \in 1..MaxDataStates}

\* the predicate handed over with the classifier it has
KeepPredicate(pred) == pred

\* utils.strip_predicate: the predicate with a classifier that holds nowhere
StripPredicate(pred) == [pred EXCEPT !.clf = {}]

\* _get_current_predicates
CurrentPredicates == interactive.known_predicates \cup interactive.predicates_to_learn

RECURSIVE Flatten(_)
\* new_states: the states of the trajectories, in order
Flatten(trajectories) ==
    IF trajectories = << >> THEN << >>
    ELSE Head(trajectories) \o Flatten(Tail(trajectories))

\* InteractiveLearningApproach.__init__: the known predicates, the stripped
\* predicates to learn, and a teacher with the environment's predicates;
\* made_by names, for each predicate to learn, the code that built the
\* classifier object the approach holds for it
NewApproach(all_predicates, known, ratio) ==
    LET to_learn == {p \in all_predicates : p.name[1] \notin known}
    IN  [known_predicates |-> all_predicates \ to_learn,
         predicates_to_learn |-> {StripPredicate(p) : p \in to_learn},
         made_by |-> [n \in {p.name : p \in to_learn} |-> "strip_predicate"],
         teacher |-> [name_to_predicate |-> all_predicates,
                      predicates_to_learn |-> to_learn,
                      has_generated_data |-> FALSE],
         dataset |-> << >>,
         ground_atom_dataset |-> << >>,
         ratio |-> ratio,
         load |-> << >>,
         raised |-> "",
         result |-> << >>]

InitInteractive ==
    /\ pc = "load_dataset"
    /\ mode = "interactive"
    /\ min_data_for_operator = 1
    /\ dataset \in InteractiveDatasets
    /\ interactive \in {NewApproach(all_predicates, known, ratio) :
                            all_predicates \in EnvPredicates,
                            known \in KnownPredicateNames,
                            ratio \in LabelRatios}
    /\ predicates = {}
    /\ do_sampler_learning = FALSE
    /\ Idle
    /\ NoUnifyCall
    /\ learned_predicates = {}
    /\ num_inventions = 0
    /\ inv = [scanned |-> << >>, tried |-> << >>, call |-> << >>]
    /\ rng = << >>
    /\ accept_score = 100

\* _load_dataset storing the trajectories before the teacher is called
LoadStartStoring(approach, trajectories) ==
    [approach EXCEPT
        !.teacher.has_generated_data = TRUE,
        !.dataset = @ \o trajectories,
        !.load = [i |-> 1, j |-> 1, ground_atoms_dataset |-> << >>,
                  ground_atoms_traj |-> << >>]]

\* _load_dataset up to the loop of create_teacher_dataset: the teacher's flag
\* is set and nothing is stored yet
LoadStart(approach, trajectories) ==
    [approach EXCEPT
        !.teacher.has_generated_data = TRUE,
        !.load = [i |-> 1, j |-> 1, ground_atoms_dataset |-> << >>,
                  ground_atoms_traj |-> << >>]]

\* a teacher that forgets that it has generated data
NeverGenerated(teacher) == FALSE

\* line 210: what the assertion of _Teacher.generate_data negates
HasGeneratedData(teacher) == teacher.has_generated_data

\* _load_dataset, to the first state of create_teacher_dataset:
\* _Teacher.generate_data asserts that it runs for the first time. Where the
\* approach is loaded repeatedly, a dataset is given again after a load has
\* ended
LoadDataset ==
    /\ \/ pc = "load_dataset"
       \/ mode = "reload" /\ pc \in {"loaded", "failed"}
    /\ IF HasGeneratedData(interactive.teacher)
       THEN /\ interactive' = [interactive EXCEPT !.raised = "AssertionError"]
            /\ pc' = "failed"
       ELSE /\ interactive' = LoadStart(interactive, dataset)
            /\ pc' = "teacher"
    /\ UNCHANGED <<mode, dataset, min_data_for_operator, predicates, transitions_by_option,
                   do_sampler_learning, scan, cur, t_idx, option_args,
                   add_effects, delete_effects, partitions, part_idx,
                   operators, all_operators, unify_cache, error, sd, u_in,
                   u_out, learned_predicates, num_inventions, op_scan, op_cur,
                   smp, accept_score, inv, rng>>

\* the sample count rounded up
NumSamplesCeil(num_atoms, ratio) == (num_atoms * ratio + 99) \div 100

\* line 235: int(len(ground_atoms) * ratio)
NumSamples(num_atoms, ratio) == (num_atoms * ratio) \div 100

\* lines 238-241: rng.choice without replacement, n_samples of the atoms
SubsetAtoms(ground_atoms, n_samples) ==
    {S \in SUBSET ground_atoms : Cardinality(S) = n_samples}

\* create_teacher_dataset: one pass of the loop over the states; after the
\* last state _load_dataset extends the stored datasets
CreateTeacherDatasetStep ==
    /\ pc = "teacher"
    /\ LET load == interactive.load
           ss == dataset[load.i]
           ground_atoms == Abstract(ss[load.j], interactive.teacher.predicates_to_learn)
           n_samples == NumSamples(Cardinality(ground_atoms), interactive.ratio)
       IN  IF n_samples < 1
           THEN /\ interactive' = [interactive EXCEPT !.raised = "ApproachFailure"]
                /\ pc' = "failed"
           ELSE \E subset_atoms \in SubsetAtoms(ground_atoms, n_samples) :
                LET traj == Append(load.ground_atoms_traj, subset_atoms)
                    out == Append(load.ground_atoms_dataset, traj)
                IN  IF load.j < Len(ss)
                    THEN /\ interactive' = [interactive EXCEPT
                                !.load.j = load.j + 1,
                                !.load.ground_atoms_traj = traj]
                         /\ pc' = "teacher"
                    ELSE IF load.i < Len(dataset)
                    THEN /\ interactive' = [interactive EXCEPT
                                !.load = [i |-> load.i + 1, j |-> 1,
                                          ground_atoms_dataset |-> out,
                                          ground_atoms_traj |-> << >>]]
                         /\ pc' = "teacher"
                    ELSE /\ interactive' = [interactive EXCEPT
                                !.load = << >>,
                                !.dataset = @ \o dataset,
                                !.ground_atom_dataset = @ \o out]
                         /\ pc' = "loaded"
    /\ UNCHANGED <<mode, dataset, min_data_for_operator, predicates, transitions_by_option,
                   do_sampler_learning, scan, cur, t_idx, option_args,
                   add_effects, delete_effects, partitions, part_idx,
                   operators, all_operators, unify_cache, error, sd, u_in,
                   u_out, learned_predicates, num_inventions, op_scan, op_cur,
                   smp, accept_score, inv, rng>>

\* what a fitted MLPClassifier may compute, against the teacher's labels
FittedModels == {"labels", "negated"}

\* the classifier a fitted model is, for a predicate of the teacher
ModelClassifier(kind, original) ==
    IF kind = "labels" THEN original.clf
    ELSE [1..original.arity -> FeatureValues] \ original.clf

\* _relearn_predicates_and_operators, lines 114-158: every predicate to learn
\* gets the classifier its fitted MLPClassifier is; it runs after the dataset
\* is loaded and at the end of every episode of asking
RelearnPredicates ==
    /\ pc \in {"loaded", "asked"}
    /\ \E kind \in FittedModels :
        interactive' = [interactive EXCEPT
            !.predicates_to_learn =
                {[p EXCEPT !.clf = ModelClassifier(kind,
                        CHOOSE o \in interactive.teacher.predicates_to_learn :
                            o.name = p.name)] : p \in @},
            !.made_by = [n \in DOMAIN @ |-> "LearnedPredicateClassifier"],
            !.result = << >>]
    /\ pc' = "loaded"
    /\ UNCHANGED <<mode, dataset, min_data_for_operator, predicates, transitions_by_option,
                   do_sampler_learning, scan, cur, t_idx, option_args,
                   add_effects, delete_effects, partitions, part_idx,
                   operators, all_operators, unify_cache, error, sd, u_in,
                   u_out, learned_predicates, num_inventions, op_scan, op_cur,
                   smp, accept_score, inv, rng>>

\* score_goal, as the count its score is the inverse of
GoalCount(ground_atom_dataset, goal) ==
    1 + Cardinality({ij \in UNION {{<<i, j>> : j \in DOMAIN ground_atom_dataset[i]} :
                                    i \in DOMAIN ground_atom_dataset} :
                        goal \subseteq ground_atom_dataset[ij[1]][ij[2]]})

\* lines 171-173: the count of every new state
StateCounts(new_states) ==
    [k \in DOMAIN new_states |->
        GoalCount(interactive.ground_atom_dataset,
                  Abstract(new_states[k], CurrentPredicates))]

\* score > threshold in place of >=
ScoreAbove(count, threshold) == 100 > threshold * count

\* score >= threshold, the score being 1 / count
ScoreAtLeast(count, threshold) == 100 >= threshold * count

RECURSIVE SelectSeq2(_, _)
\* the list comprehension of lines 178-179: the indices that pass, in order
SelectSeq2(indices, keep) ==
    IF indices = << >> THEN << >>
    ELSE (IF keep[Head(indices)] THEN <<Head(indices)>> ELSE << >>)
            \o SelectSeq2(Tail(indices), keep)

\* the states in the order they were given
SortByIndex(indices, counts) == [k \in 1..Cardinality(indices) |-> k]

RECURSIVE SortByScore(_, _)
\* states_and_scores.sort(key=score, reverse=True): stable, the highest score
\* (the lowest count) first
SortByScore(indices, counts) ==
    IF indices = {} THEN << >>
    ELSE LET first == CHOOSE k \in indices :
                        \A m \in indices \ {k} :
                            counts[k] < counts[m] \/ (counts[k] = counts[m] /\ k < m)
         IN  <<first>> \o SortByScore(indices \ {first}, counts)

\* line 182: int(pct / 100. * len(new_states))
TopCount(pct, n) == (pct * n) \div 100

\* an unsupported strategy answered with every state
UnsupportedReturnsAll(all) == [raised |-> "", states |-> all]

\* lines 186-188: no branch matched the strategy
UnsupportedStrategy(all) == [raised |-> "NotImplementedError", states |-> << >>]

\* _get_states_to_ask(trajectories): the states returned, as indices into
\* new_states, or the exception raised
get_states_to_ask(trajectories, strategy, threshold, pct) ==
    LET new_states == Flatten(trajectories)
        counts == StateCounts(new_states)
        all == [k \in DOMAIN new_states |-> k]
    IN  IF strategy = "all_seen_states" THEN [raised |-> "", states |-> all]
        ELSE IF strategy = "threshold"
            THEN [raised |-> "",
                  states |-> SelectSeq2(all, [k \in DOMAIN all |->
                                                ScoreAtLeast(counts[k], threshold)])]
        ELSE IF strategy = "top_k_percent"
            THEN [raised |-> "",
                  states |-> SubSeq(SortByScore(DOMAIN new_states, counts), 1,
                                    TopCount(pct, Len(new_states)))]
        ELSE UnsupportedStrategy(all)

\* _get_states_to_ask on the trajectories of the dataset, under any configured
\* strategy
GetStatesToAsk ==
    /\ pc = "loaded"
    /\ \E strategy \in AskStrategies, threshold \in AskThresholds, pct \in AskPercents :
        /\ strategy # "threshold" => threshold = 0
        /\ strategy # "top_k_percent" => pct = 0
        /\ \E res \in {get_states_to_ask(dataset, strategy, threshold, pct)} :
            interactive' = [interactive EXCEPT
                !.result = [call |-> "_get_states_to_ask", strategy |-> strategy,
                            threshold |-> threshold, pct |-> pct,
                            raised |-> res.raised, states |-> res.states]]
    /\ pc' = "asked"
    /\ UNCHANGED <<mode, dataset, min_data_for_operator, predicates, transitions_by_option,
                   do_sampler_learning, scan, cur, t_idx, option_args,
                   add_effects, delete_effects, partitions, part_idx,
                   operators, all_operators, unify_cache, error, sd, u_in,
                   u_out, learned_predicates, num_inventions, op_scan, op_cur,
                   smp, accept_score, inv, rng>>

\* utils.all_possible_ground_atoms(state, preds)
AllPossibleGroundAtoms(state, preds) ==
    UNION {{Atom(p, c) : c \in ObjectCombinations(DOMAIN state, p.arity)} : p \in preds}

\* the predicate of the given name in a set of predicates
PredicateNamed(preds, name) == CHOOSE p \in preds : p.name = name

\* an answer from the approach's own copy of the predicate
AskOwnPredicate(teacher, state, ground_atom) ==
    Holds(PredicateNamed(CurrentPredicates, ground_atom.pred), state, ground_atom.args)

\* _Teacher.ask: the predicate of the atom's name, with the teacher's classifier
Ask(teacher, state, ground_atom) ==
    Holds(PredicateNamed(teacher.name_to_predicate, ground_atom.pred),
          state, ground_atom.args)

\* _ask_teacher(state, ground_atom) on a state of the dataset and any atom of
\* the current predicates
AskTeacher ==
    /\ pc = "loaded"
    /\ \E k \in DOMAIN Flatten(dataset) :
        \E state \in {Flatten(dataset)[k]} :
        \E ground_atom \in AllPossibleGroundAtoms(state, CurrentPredicates) :
            interactive' = [interactive EXCEPT
                !.result = [call |-> "_ask_teacher", state |-> state,
                            ground_atom |-> ground_atom,
                            answer |-> Ask(interactive.teacher, state, ground_atom)]]
    /\ pc' = "asked"
    /\ UNCHANGED <<mode, dataset, min_data_for_operator, predicates, transitions_by_option,
                   do_sampler_learning, scan, cur, t_idx, option_args,
                   add_effects, delete_effects, partitions, part_idx,
                   operators, all_operators, unify_cache, error, sd, u_in,
                   u_out, learned_predicates, num_inventions, op_scan, op_cur,
                   smp, accept_score, inv, rng>>

NextInteractive ==
    \/ LoadDataset
    \/ CreateTeacherDatasetStep
    \/ RelearnPredicates
    \/ GetStatesToAsk
    \/ AskTeacher

\* InteractiveLearningApproach: a dataset is loaded, then predicates are
\* relearned, and in every episode states to ask are selected or the teacher
\* is asked before the predicates are relearned
SpecInteractive == InitInteractive /\ [][NextInteractive]_vars

\* an approach that is given its dataset more than once
InitReload ==
    /\ pc = "load_dataset"
    /\ mode = "reload"
    /\ min_data_for_operator = 1
    /\ dataset \in InteractiveDatasets
    /\ interactive \in {NewApproach(all_predicates, known, ratio) :
                            all_predicates \in EnvPredicates,
                            known \in KnownPredicateNames,
                            ratio \in LabelRatios}
    /\ predicates = {}
    /\ do_sampler_learning = FALSE
    /\ Idle
    /\ NoUnifyCall
    /\ learned_predicates = {}
    /\ num_inventions = 0
    /\ inv = [scanned |-> << >>, tried |-> << >>, call |-> << >>]
    /\ rng = << >>
    /\ accept_score = 100

NextReload == LoadDataset \/ CreateTeacherDatasetStep

\* _load_dataset called on the same approach any number of times
SpecReload == InitReload /\ [][NextReload]_vars

---------------------------------------------------------------------------
(* learn_from_offline_dataset as a whole: the load, the first relearning   *)
(* and the active learning episodes.                                       *)

\* the largest CFG.interactive_num_episodes and CFG.interactive_relearn_every
MaxEpisodes == 2

\* the most states a rollout returns: CFG.interactive_max_steps and the first
MaxRolloutStates == 2

\* the most goals glib_sample babbles: CFG.interactive_num_babbles
MaxBabbles == 2

\* the CFG values the episodes read
ActiveSettings ==
    [interactive_num_episodes : 0..MaxEpisodes,
     interactive_relearn_every : 1..MaxEpisodes,
     interactive_num_babbles : {1},
     interactive_num_tasks_babbled : {1},
     interactive_ask_strategy : {"all_seen_states"}]

\* the settings under which an episode has several candidate tasks
RetrySettings ==
    [interactive_num_episodes : {1},
     interactive_relearn_every : {1},
     interactive_num_babbles : 1..MaxBabbles,
     interactive_num_tasks_babbled : 1..MaxBabbles,
     interactive_ask_strategy : {"all_seen_states"}]

\* the local variables of learn_from_offline_dataset; rolled, stored and
\* labelled record what the run rolled out, what line 89 stored and which
\* state each appended label set was given for; model is what the seeded
\* MLPClassifier of the run computes
NewLocals(cfg, model) ==
    [cfg |-> cfg, model |-> model, i |-> 0, state |-> << >>, new_trajectories |-> << >>,
     task_list |-> << >>, k |-> 0, tried |-> << >>, to_ask |-> << >>,
     examples |-> << >>, rolled |-> << >>, stored |-> << >>,
     labelled |-> << >>]

\* an approach whose learn_from_offline_dataset is about to run
InitEpisodes(settings) ==
    /\ pc = "load_dataset"
    /\ mode = "active"
    /\ min_data_for_operator = 1
    /\ dataset \in DatasetsOfStates(1)
    /\ interactive \in {[locals |-> NewLocals(cfg, model)]
                            @@ NewApproach({Pred0, On}, known, 100) :
                            cfg \in settings,
                            model \in FittedModels,
                            known \in KnownPredicateNames}
    /\ predicates = {}
    /\ do_sampler_learning = FALSE
    /\ Idle
    /\ NoUnifyCall
    /\ learned_predicates = {}
    /\ num_inventions = 0
    /\ inv = [scanned |-> << >>, tried |-> << >>, call |-> << >>]
    /\ rng = << >>
    /\ accept_score = 100

InitActive == InitEpisodes(ActiveSettings)

InitRetry == InitEpisodes(RetrySettings)

\* glib_sample: the task lists it may return, each goal one babbled atom
\* (CFG.interactive_max_num_atoms_babbled is 1), sorted by descending score
\* and cut to the first CFG.interactive_num_tasks_babbled
GlibSample(initial_state, preds, ground_atom_dataset, cfg) ==
    LET ground_atoms == AllPossibleGroundAtoms(initial_state, preds)
        babbles == 1..cfg.interactive_num_babbles
    IN  {LET counts == [n \in babbles |-> GoalCount(ground_atom_dataset, goals[n])]
             order == SortByScore(babbles, counts)
             num_tasks == cfg.interactive_num_tasks_babbled
         IN  SubSeq([n \in babbles |-> goals[order[n]]], 1,
                    IF num_tasks < Len(order) THEN num_tasks ELSE Len(order)) :
            goals \in [babbles -> {{a} : a \in ground_atoms}]}

\* lines 58-67: the next episode begins with the initial state of a train
\* task, here the first state of a trajectory of the dataset, and the tasks
\* of glib_sample
BeginEpisode ==
    /\ pc = "episode"
    /\ interactive.locals.i <= interactive.locals.cfg.interactive_num_episodes
    /\ \E index \in DOMAIN dataset :
        \E task_list \in GlibSample(dataset[index][1], CurrentPredicates,
                                    interactive.ground_atom_dataset,
                                    interactive.locals.cfg) :
            interactive' = [interactive EXCEPT
                !.locals.state = dataset[index][1],
                !.locals.task_list = task_list,
                !.locals.k = 1,
                !.locals.tried = << >>]
    /\ pc' = "solve"
    /\ UNCHANGED <<mode, dataset, min_data_for_operator, predicates, transitions_by_option,
                   do_sampler_learning, scan, cur, t_idx, option_args,
                   add_effects, delete_effects, partitions, part_idx,
                   operators, all_operators, unify_cache, error, sd, u_in,
                   u_out, learned_predicates, num_inventions, op_scan, op_cur,
                   smp, accept_score, inv, rng>>

\* a loop that gives up at the first candidate that is not solved
GiveUp(k, task_list) == 0

\* lines 68 and 76: the candidate after the k-th, 0 when the list is exhausted
NextCandidate(k, task_list) == IF k < Len(task_list) THEN k + 1 ELSE 0

\* lines 68-79: one pass of the loop over the candidate tasks; self.solve
\* returns a policy or raises ApproachTimeout or ApproachFailure
SolveTask ==
    /\ pc = "solve"
    /\ \E outcome \in {"policy", "ApproachTimeout", "ApproachFailure"} :
        IF outcome = "policy"
        THEN /\ pc' = "rollout"
             /\ UNCHANGED interactive
        ELSE LET next == NextCandidate(interactive.locals.k,
                                       interactive.locals.task_list)
             IN  IF next = 0
                 THEN /\ interactive' = [interactive EXCEPT
                            !.raised = "ApproachFailure",
                            !.locals.tried = Append(@, outcome)]
                      /\ pc' = "failed"
                 ELSE /\ interactive' = [interactive EXCEPT
                            !.locals.k = next,
                            !.locals.tried = Append(@, outcome)]
                      /\ pc' = "solve"
    /\ UNCHANGED <<mode, dataset, min_data_for_operator, predicates, transitions_by_option,
                   do_sampler_learning, scan, cur, t_idx, option_args,
                   add_effects, delete_effects, partitions, part_idx,
                   operators, all_operators, unify_cache, error, sd, u_in,
                   u_out, learned_predicates, num_inventions, op_scan, op_cur,
                   smp, accept_score, inv, rng>>

\* utils.run_policy_on_task: the states visited from the task's initial state
Rollouts(state) ==
    UNION {{ss \in [1..n -> StatesOver(DOMAIN state)] : ss[1] = state} :
                n \in 1..MaxRolloutStates}

\* line 86: i % CFG.interactive_relearn_every == 0
RelearnDue(i, cfg) == i % cfg.interactive_relearn_every = 0

\* lines 81-91: the policy is rolled out and its trajectory kept; every
\* interactive_relearn_every episodes the new trajectories are stored and the
\* states to ask about are selected
RollOut ==
    /\ pc = "rollout"
    /\ \E action_traj \in Rollouts(interactive.locals.state) :
        LET locals == interactive.locals
            new_trajectories == Append(locals.new_trajectories, action_traj)
            rolled == Append(locals.rolled, action_traj)
            res == get_states_to_ask(new_trajectories,
                                     locals.cfg.interactive_ask_strategy, 0, 0)
            new_states == Flatten(new_trajectories)
        IN  IF ~RelearnDue(locals.i, locals.cfg)
            THEN /\ interactive' = [interactive EXCEPT
                        !.locals.new_trajectories = new_trajectories,
                        !.locals.rolled = rolled,
                        !.locals.i = @ + 1]
                 /\ pc' = "episode"
            ELSE IF res.raised # ""
            THEN /\ interactive' = [interactive EXCEPT
                        !.dataset = @ \o new_trajectories,
                        !.raised = res.raised,
                        !.locals.new_trajectories = new_trajectories,
                        !.locals.rolled = rolled,
                        !.locals.stored = @ \o new_trajectories]
                 /\ pc' = "failed"
            ELSE /\ interactive' = [interactive EXCEPT
                        !.dataset = @ \o new_trajectories,
                        !.locals.new_trajectories = new_trajectories,
                        !.locals.rolled = rolled,
                        !.locals.stored = @ \o new_trajectories,
                        !.locals.to_ask = [n \in DOMAIN res.states |->
                                                new_states[res.states[n]]]]
                 /\ pc' = IF res.states = << >> THEN "relearn" ELSE "ask"
    /\ UNCHANGED <<mode, dataset, min_data_for_operator, predicates, transitions_by_option,
                   do_sampler_learning, scan, cur, t_idx, option_args,
                   add_effects, delete_effects, partitions, part_idx,
                   operators, all_operators, unify_cache, error, sd, u_in,
                   u_out, learned_predicates, num_inventions, op_scan, op_cur,
                   smp, accept_score, inv, rng>>

\* lines 91-101: one pass of the loop over the states to ask about, a random
\* ground atom each; a positive answer is appended with its state
AskStep ==
    /\ pc = "ask"
    /\ LET s == Head(interactive.locals.to_ask)
       IN  \E random_atom \in AllPossibleGroundAtoms(s, CurrentPredicates) :
            IF Ask(interactive.teacher, s, random_atom)
            THEN interactive' = [interactive EXCEPT
                    !.ground_atom_dataset = Append(@, <<{random_atom}>>),
                    !.dataset = Append(@, <<s>>),
                    !.locals.labelled = Append(@, <<s>>),
                    !.locals.to_ask = Tail(@)]
            ELSE interactive' = [interactive EXCEPT !.locals.to_ask = Tail(@)]
    /\ pc' = IF Tail(interactive.locals.to_ask) = << >> THEN "relearn" ELSE "ask"
    /\ UNCHANGED <<mode, dataset, min_data_for_operator, predicates, transitions_by_option,
                   do_sampler_learning, scan, cur, t_idx, option_args,
                   add_effects, delete_effects, partitions, part_idx,
                   operators, all_operators, unify_cache, error, sd, u_in,
                   u_out, learned_predicates, num_inventions, op_scan, op_cur,
                   smp, accept_score, inv, rng>>

\* lines 119-125: the vectors of the labelled atoms of the predicate, each
\* read from the state at the label set's index in the stored dataset
PositiveExamples(pred, stored_dataset, ground_atom_dataset) ==
    UNION {UNION {{Vec(stored_dataset[i][j], a.args) :
                        a \in {b \in ground_atom_dataset[i][j] : b.pred = pred.name}} :
                    j \in DOMAIN ground_atom_dataset[i]} :
                i \in DOMAIN ground_atom_dataset}

RECURSIVE CombinationList(_)
\* get_object_combinations as the list it is iterated as
CombinationList(combinations) ==
    IF combinations = {} THEN << >>
    ELSE LET first == CHOOSE c \in combinations :
                        \A d \in combinations \ {c} :
                            \E n \in DOMAIN c :
                                c[n] < d[n] /\ \A l \in 1..(n - 1) : c[l] = d[l]
         IN  <<first>> \o CombinationList(combinations \ {first})

\* lines 129-133: the vector of every combination of the state's objects
Possible(state, arity) ==
    LET choices == CombinationList(ObjectCombinations(DOMAIN state, arity))
    IN  [n \in DOMAIN choices |-> Vec(state, choices[n])]

\* lines 134-141 for one state: the loop over the product of the possible
\* vectors and the positive examples breaks at the first equal pair, and its
\* else appends the loop variable ex once; ex keeps its last value, and
\* << >> stands for an ex that was never bound
ForElseNegatives(possible, positive_examples, ex) ==
    IF possible = << >> \/ positive_examples = {}
    THEN IF ex = << >>
         THEN [raised |-> TRUE, ex |-> ex, negatives |-> << >>]
         ELSE [raised |-> FALSE, ex |-> ex, negatives |-> ex]
    ELSE IF \E n \in DOMAIN possible : possible[n] \in positive_examples
    THEN [raised |-> FALSE,
          ex |-> <<possible[CHOOSE n \in DOMAIN possible :
                                /\ possible[n] \in positive_examples
                                /\ \A l \in 1..(n - 1) :
                                        possible[l] \notin positive_examples]>>,
          negatives |-> << >>]
    ELSE [raised |-> FALSE,
          ex |-> <<possible[Len(possible)]>>,
          negatives |-> <<possible[Len(possible)]>>]

RECURSIVE NegativeExamples(_, _, _, _)
\* lines 127-142: the negative examples of a predicate over the states of
\* the stored dataset
NegativeExamples(states, arity, positive_examples, ex) ==
    IF states = << >> THEN [raised |-> FALSE, ex |-> ex, negatives |-> << >>]
    ELSE LET one == ForElseNegatives(Possible(Head(states), arity),
                                     positive_examples, ex)
         IN  IF one.raised THEN one
             ELSE LET rest == NegativeExamples(Tail(states), arity,
                                               positive_examples, one.ex)
                  IN  [raised |-> rest.raised, ex |-> rest.ex,
                       negatives |-> one.negatives \o rest.negatives]

RECURSIVE RelearnExamples(_, _)
\* lines 114-145: the examples of every predicate to learn, in the order the
\* set of predicates is iterated in
RelearnExamples(order, ex) ==
    IF order = << >> THEN [raised |-> FALSE, examples |-> << >>]
    ELSE LET pred == Head(order)
             positive_examples ==
                PositiveExamples(pred, interactive.dataset,
                                 interactive.ground_atom_dataset)
             neg == NegativeExamples(Flatten(interactive.dataset), pred.arity,
                                     positive_examples, ex)
             rest == RelearnExamples(Tail(order), neg.ex)
         IN  IF neg.raised THEN [raised |-> TRUE, examples |-> << >>]
             ELSE [raised |-> rest.raised,
                   examples |-> <<[pred |-> pred.name,
                                   positive |-> positive_examples,
                                   negative |-> neg.negatives]>> \o rest.examples]

\* lines 55 and 104-106: _relearn_predicates_and_operators after the load and
\* at the end of an asking episode, then the reset of new_trajectories; an
\* unbound ex raises UnboundLocalError
ActiveRelearn ==
    /\ mode = "active"
    /\ pc \in {"loaded", "relearn"}
    /\ \E order \in {o \in [1..Cardinality(interactive.predicates_to_learn) ->
                                interactive.predicates_to_learn] : Injective(o)} :
        LET res == RelearnExamples(order, << >>)
            kind == interactive.locals.model
        IN  IF res.raised
            THEN /\ interactive' = [interactive EXCEPT !.raised = "UnboundLocalError"]
                 /\ pc' = "failed"
            ELSE /\ interactive' = [interactive EXCEPT
                        !.predicates_to_learn =
                            {[p EXCEPT !.clf = ModelClassifier(kind,
                                PredicateNamed(interactive.teacher.predicates_to_learn,
                                               p.name))] : p \in @},
                        !.made_by = [n \in DOMAIN @ |-> "LearnedPredicateClassifier"],
                        !.locals.examples =
                            [n \in {e.pred : e \in Range(res.examples)} |->
                                CHOOSE e \in Range(res.examples) : e.pred = n],
                        !.locals.new_trajectories = << >>,
                        !.locals.to_ask = << >>,
                        !.locals.i = @ + 1]
                 /\ pc' = "episode"
    /\ UNCHANGED <<mode, dataset, min_data_for_operator, predicates, transitions_by_option,
                   do_sampler_learning, scan, cur, t_idx, option_args,
                   add_effects, delete_effects, partitions, part_idx,
                   operators, all_operators, unify_cache, error, sd, u_in,
                   u_out, learned_predicates, num_inventions, op_scan, op_cur,
                   smp, accept_score, inv, rng>>

\* line 58: the range of episodes is exhausted and the method returns
ActiveReturn ==
    /\ pc = "episode"
    /\ interactive.locals.i > interactive.locals.cfg.interactive_num_episodes
    /\ pc' = "returned"
    /\ UNCHANGED <<mode, dataset, min_data_for_operator, predicates, transitions_by_option,
                   do_sampler_learning, scan, cur, t_idx, option_args,
                   add_effects, delete_effects, partitions, part_idx,
                   operators, all_operators, unify_cache, error, sd, u_in,
                   u_out, learned_predicates, num_inventions, op_scan, op_cur,
                   smp, accept_score, inv, rng, interactive>>

NextActive ==
    \/ LoadDataset
    \/ CreateTeacherDatasetStep
    \/ ActiveRelearn
    \/ BeginEpisode
    \/ SolveTask
    \/ RollOut
    \/ AskStep
    \/ ActiveReturn

\* learn_from_offline_dataset on a dataset of one state
SpecActive == InitActive /\ [][NextActive]_vars

\* one episode of learn_from_offline_dataset with several candidate tasks
SpecRetry == InitRetry /\ [][NextActive]_vars

---------------------------------------------------------------------------
(* The properties. *)

\* C1: effect disjointness. Every stored transition, as generate_transitions
\* produced it and after every accepted invention's re-abstraction, has
\* disjoint add effects and delete effects, and its atoms after the step are
\* its atoms before, less the delete effects, plus the add effects.
EffectDisjointness ==
    \A k \in DOMAIN transitions_by_option :
        \A i \in DOMAIN transitions_by_option[k].transitions :
            LET tr == transitions_by_option[k].transitions[i]
            IN  /\ tr.add_effects \cap tr.delete_effects = {}
                /\ tr.next_atoms = (tr.atoms \ tr.delete_effects) \cup tr.add_effects

\* after an accepted invention a stored transition adds an atom of the
\* invented predicate, deletes one of its negation and keeps an atom
EffectDisjointnessWitness ==
    /\ pc = "iterate"
    /\ num_inventions >= 1
    /\ \E k \in DOMAIN transitions_by_option :
        \E i \in DOMAIN transitions_by_option[k].transitions :
            LET tr == transitions_by_option[k].transitions[i]
            IN  /\ \E a \in tr.add_effects : a.pred[1] = "InventedPredicate"
                /\ \E a \in tr.delete_effects : a.pred[1] = "NOT-InventedPredicate"
                /\ tr.atoms \cap tr.next_atoms # {}

\* C8: bounded rejection sampling. The sampler draws at most
\* max_rejection_sampling_tries + 1 candidates; it returns the first drawn
\* candidate that is in bounds and classified positive and draws none after
\* it; when no drawn candidate is accepted it has drawn exactly
\* max_rejection_sampling_tries + 1 of them and returns the last one if that
\* is in bounds, and a sample of the parameter space otherwise.
BoundedRejection ==
    LET accepted(k) == /\ smp.drawn[k] \in ParamsSpace
                       /\ smp.drawn[k] \in smp.classifier
        n == Len(smp.drawn)
    IN  mode = "sampler" =>
            /\ n <= smp.max_rejection_sampling_tries + 1
            /\ \A k \in 1..(n - 1) : ~accepted(k)
            /\ pc = "returned" =>
                /\ n >= 1
                /\ accepted(n) => smp.params = smp.drawn[n] /\ ~smp.sampled
                /\ ~accepted(n) =>
                    /\ n = smp.max_rejection_sampling_tries + 1
                    /\ IF smp.drawn[n] \in ParamsSpace
                       THEN smp.params = smp.drawn[n] /\ ~smp.sampled
                       ELSE smp.params \in ParamsSpace /\ smp.sampled

\* every one of three candidates is rejected, the first out of bounds and the
\* last in bounds, and the last one is returned
BoundedRejectionWitness ==
    /\ mode = "sampler"
    /\ pc = "returned"
    /\ smp.max_rejection_sampling_tries = 2
    /\ Len(smp.drawn) = 3
    /\ smp.drawn[1] \notin ParamsSpace
    /\ smp.drawn[3] \in ParamsSpace
    /\ smp.drawn[3] \notin smp.classifier
    /\ smp.params = smp.drawn[3]

\* C9: invention termination. The inventions of a run are never more than
\* the number of operators times the number of parameter subsets: at most one
\* operator per transition of the dataset, at most one parameter per object.
InventionBounded ==
    mode = "invent" =>
        num_inventions <=
            Len(dataset.options) * (2 ^ Cardinality(DOMAIN dataset.states[1]) - 1)

\* C10: invented-predicate pairing. A step that changes the learned
\* predicates or the invention counter adds exactly one predicate named
\* InventedPredicate-k, k the counter before the step, and its negation, both
\* new, and raises the counter by one; no step removes a learned predicate;
\* the learned predicates are always two per invention, and no two of them
\* have one name.
InventedPairing ==
    [][/\ learned_predicates \subseteq learned_predicates'
       /\ (learned_predicates' # learned_predicates \/ num_inventions' # num_inventions) =>
            /\ num_inventions' = num_inventions + 1
            /\ \E P \in learned_predicates' \ learned_predicates :
                LET N == [name |-> <<"NOT-InventedPredicate", num_inventions>>,
                          arity |-> P.arity,
                          clf |-> [1..P.arity -> FeatureValues] \ P.clf]
                IN  /\ P.name = <<"InventedPredicate", num_inventions>>
                    /\ N \notin learned_predicates
                    /\ learned_predicates' = learned_predicates \cup {P, N}
       /\ Cardinality(learned_predicates') = 2 * num_inventions'
       /\ \A P, Q \in learned_predicates' : P.name = Q.name => P = Q
      ]_vars

\* two inventions are accepted, the second with the classifier of the first
InventedPairingWitness ==
    /\ num_inventions = 2
    /\ Cardinality(learned_predicates) = 4
    /\ \E P, Q \in learned_predicates :
        /\ P.name = <<"InventedPredicate", 0>>
        /\ Q.name = <<"InventedPredicate", 1>>
        /\ P.clf = Q.clf


\* C11: predicate-set/transition consistency. Throughout the invention loop,
\* from every call of _invent_for_some_operator on, the current predicates
\* are the initial ones plus every learned predicate and negation, and every
\* stored transition of every option has as atoms the abstraction of its state
\* and as next atoms the abstraction of its next state under exactly that set.
PredicateSetConsistency ==
    (mode = "invent" /\ pc \in {"iterate", "option", "partition", "operators", "invent"}) =>
        /\ learned_predicates \subseteq predicates
        /\ (predicates \ learned_predicates) \in InitialPredicates
        /\ \A k \in DOMAIN transitions_by_option :
            \A i \in DOMAIN transitions_by_option[k].transitions :
                LET tr == transitions_by_option[k].transitions[i]
                IN  /\ tr.atoms = Abstract(tr.state, predicates)
                    /\ tr.next_atoms = Abstract(tr.next_state, predicates)

\* the invention routine is given, after two inventions, a transition whose
\* atoms hold an atom of each invented pair and whose next atoms differ
PredicateSetConsistencyWitness ==
    /\ mode = "invent"
    /\ pc = "invent"
    /\ num_inventions = 2
    /\ \E k \in DOMAIN transitions_by_option :
        \E i \in DOMAIN transitions_by_option[k].transitions :
            LET tr == transitions_by_option[k].transitions[i]
            IN  /\ \A n \in {0, 1} : \E a \in tr.atoms :
                        a.pred \in {<<"InventedPredicate", n>>, <<"NOT-InventedPredicate", n>>}
                /\ \E a \in tr.next_atoms \ tr.atoms : a.pred[2] = 1

\* C18: a deterministic operator needs no invention. In a call of
\* _invent_for_operator on an operator with parameters, an example is positive
\* exactly when the transition's tagged add and delete effects equal the
\* operator's grounded ones; every parameter subset has the same numbers of
\* positives and negatives; and when there is no negative the call returns
\* None and fits no classifier, while with a negative it fits.
DeterministicNeedsNoInvention ==
    LET call == inv.call
    IN  (call # << >> /\ DOMAIN call.pos # {} /\ ~call.error) =>
            /\ \A q, r \in DOMAIN call.pos :
                    call.pos[q] = call.pos[r] /\ call.neg[q] = call.neg[r]
            /\ \A q \in DOMAIN call.pos :
                /\ call.pos[q] = Cardinality({d \in call.data : d.pos})
                /\ call.neg[q] = Cardinality({d \in call.data : ~d.pos})
                /\ call.neg[q] = 0 => ~call.fitted /\ call.result = << >>
                /\ call.neg[q] > 0 => call.fitted
            /\ pc = "invent" =>
                \A d \in call.data :
                    LET tr == CurTransitions[d.t]
                        operator == operators[call.op]
                    IN  d.pos <=>
                            /\ {Substitute(a, d.sub) : a \in operator.add_effects}
                                    = tr.add_effects
                            /\ {Substitute(a, d.sub) : a \in operator.delete_effects}
                                    = tr.delete_effects

\* an operator of two parameters predicts every one of two or more examples,
\* and the call returns None
DeterministicNeedsNoInventionWitness ==
    /\ pc = "invent"
    /\ inv.call # << >>
    /\ Cardinality(DOMAIN inv.call.pos) = 3
    /\ \A q \in DOMAIN inv.call.pos : inv.call.pos[q] >= 2 /\ inv.call.neg[q] = 0
    /\ ~inv.call.fitted
    /\ inv.call.result = << >>

\* the examples of the last _invent_for_operator call
CallSize == Cardinality(inv.call.data)

\* the parameter subsets of the last call whose classifier reaches the
\* acceptance threshold
CallAccepted ==
    {q \in DOMAIN inv.call.correct : 100 * inv.call.correct[q] >= accept_score * CallSize}

\* accuracy - 0.1 * |subset| of a subset of the last call, times 10 * CallSize
CallScore(q) == 10 * inv.call.correct[q] - Len(q) * CallSize

\* C19: candidate scoring. When _invent_for_operator fits classifiers, a
\* subset whose accuracy is below the acceptance threshold is never returned;
\* if every subset is rejected the call returns None although there are
\* negatives; otherwise the returned predicate is over the accepted subset of
\* the greatest accuracy - 0.1 * |subset|, the first in powerset order among
\* equals, has one argument per parameter of the subset, and is the
\* classifier that was fitted for that subset.
CandidateScoring ==
    LET call == inv.call
    IN  (call # << >> /\ call.fitted) =>
            /\ \E d \in call.data : ~d.pos
            /\ CallAccepted = {} => call.result = << >> /\ call.params = << >>
            /\ CallAccepted # {} =>
                /\ call.params \in CallAccepted
                /\ \A r \in CallAccepted \ {call.params} :
                    \/ CallScore(call.params) > CallScore(r)
                    \/ CallScore(call.params) = CallScore(r) /\ Before(call.params, r)
                /\ call.result # << >>
                /\ call.result.arity = Len(call.params)
                /\ call.result.clf \subseteq [1..Len(call.params) -> FeatureValues]
                /\ Cardinality({d \in call.data :
                        (Vec(transitions_by_option[inv.tried[Len(inv.tried)].option]
                                .transitions[d.t].state,
                             [i \in DOMAIN call.params |-> d.sub[call.params[i]]])
                            \in call.result.clf) <=> d.pos})
                    = call.correct[call.params]

\* two subsets of one parameter each are accepted with the same score, a
\* third subset is fitted too, and the first of the two is returned
CandidateScoringWitness ==
    /\ inv.call # << >>
    /\ inv.call.fitted
    /\ Cardinality(DOMAIN inv.call.correct) = 3
    /\ {<<0>>, <<1>>} \subseteq CallAccepted
    /\ CallScore(<<0>>) = CallScore(<<1>>)
    /\ inv.call.params = <<0>>
    /\ inv.call.result \in learned_predicates

\* every subset of a call with negatives is rejected, and None is returned
AllRejected ==
    /\ inv.call # << >>
    /\ inv.call.fitted
    /\ CallAccepted = {}
    /\ inv.call.result = << >>

\* the operators tried so far in this iteration for the i-th scanned option
TriedOf(i) == {j \in DOMAIN inv.tried : inv.tried[j].option = inv.scanned[i].option}

\* the scan of one invention iteration, as far as it went: the options are
\* taken in the order of one permutation and the operators of an option in
\* the order of another, no operator is tried twice, no operator is tried
\* after one that gave a predicate, and a predicate ends the iteration
ScanSoFar ==
    /\ pc \in {"option", "partition", "operators", "invent"} =>
            /\ scan \in RngPermutations(Len(transitions_by_option))
            /\ Len(inv.scanned) \in {cur - 1, cur} \cap (0..Len(scan))
    /\ pc = "invent" => op_scan \in RngPermutations(Len(operators))
    /\ \A i \in DOMAIN inv.scanned : inv.scanned[i].option = scan[i]
    /\ \A j \in DOMAIN inv.tried :
        /\ \E i \in DOMAIN inv.scanned :
            /\ inv.tried[j].option = inv.scanned[i].option
            /\ inv.tried[j].op \in 1..inv.scanned[i].n_ops
        /\ \A k \in DOMAIN inv.tried :
            (inv.tried[k].option = inv.tried[j].option /\ inv.tried[k].op = inv.tried[j].op)
                => k = j
        /\ j < Len(inv.tried) => inv.tried[j].result = << >>
        /\ inv.tried[j].result # << >> => pc = "iterate"

\* every operator of every option was tried in this iteration, and none gave
\* a predicate
FullScanFailed ==
    /\ Len(inv.scanned) = Len(transitions_by_option)
    /\ \A i \in DOMAIN inv.scanned :
        {inv.tried[j].op : j \in TriedOf(i)} = 1..inv.scanned[i].n_ops
    /\ \A j \in DOMAIN inv.tried : inv.tried[j].result = << >>

\* C20: greedy halting. Within an iteration the options are scanned in one
\* permutation and each option's operators in another; a step that accepts a
\* predicate accepts one, tried last, and returns to the head of the loop
\* with nothing more tried in that iteration; the loop is left exactly when
\* a full scan of all operators of all options gave no predicate.
GreedyHalting ==
    [][(mode = "invent" =>
            /\ ScanSoFar'
            /\ num_inventions' # num_inventions =>
                /\ num_inventions' = num_inventions + 1
                /\ pc' = "iterate"
                /\ inv.tried = SubSeq(inv'.tried, 1, Len(inv.tried))
                /\ Len(inv'.tried) = Len(inv.tried) + 1
                /\ inv'.tried[Len(inv'.tried)].result \in learned_predicates'
                /\ \A j \in DOMAIN inv.tried : inv.tried[j].result = << >>
            /\ mode' # "invent" => FullScanFailed /\ pc = "option" /\ error = ""
            /\ (pc = "option" /\ cur > Len(scan)) => FullScanFailed /\ mode' # "invent"
            /\ (pc' = "iterate" /\ pc # "start") => num_inventions' # num_inventions)
      ]_vars

\* an iteration over two options stops at the first operator tried: the other
\* operator of that option and the other option are not attempted
GreedyHaltingWitness ==
    /\ mode = "invent"
    /\ pc = "iterate"
    /\ num_inventions >= 1
    /\ Len(transitions_by_option) = 2
    /\ Len(inv.scanned) = 1
    /\ inv.scanned[1].n_ops = 2
    /\ Len(inv.tried) = 1
    /\ inv.tried[1].result # << >>

\* the loop is left after an invention, by a full scan of two options that
\* tried two operators or more
ConvergedAfterInvention ==
    /\ mode = "learn"
    /\ num_inventions >= 1
    /\ Len(inv.scanned) = 2
    /\ Len(inv.tried) >= 2

\* the objects of a transition's effects and option arguments
EffectObjects(tr) ==
    UNION {Range(a.args) : a \in tr.add_effects \cup tr.delete_effects}
        \cup {tr.option.objects[k] : k \in DOMAIN tr.option.objects}

\* C2: unification soundness. Whenever _unify succeeds with substitution s, s
\* is injective and maps the ground add effects onto exactly the lifted add
\* effects, the ground delete effects onto exactly the lifted delete effects
\* and the ground option arguments onto the lifted ones position by position
\* (so the lifted side under the inverse of s is the ground side, and no add
\* effect is matched to a delete effect).
UnifySoundness ==
    (pc \in {"unify_again", "unify_done"} /\ u_out.suc) =>
        LET s == u_out.sub
        IN  /\ \A x, y \in DOMAIN s : s[x] = s[y] => x = y
            /\ {[pred |-> a.pred, args |-> [k \in DOMAIN a.args |-> s[a.args[k]]]] :
                    a \in u_in.ga} = u_in.la
            /\ {[pred |-> a.pred, args |-> [k \in DOMAIN a.args |-> s[a.args[k]]]] :
                    a \in u_in.gd} = u_in.ld
            /\ [k \in DOMAIN u_in.goa |-> s[u_in.goa[k]]] = u_in.loa
            /\ Cardinality(u_in.ga) = Cardinality(u_in.la)
            /\ Cardinality(u_in.gd) = Cardinality(u_in.ld)
            /\ SubstituteAll(u_in.la, Inverse(s)) = u_in.ga
            /\ SubstituteAll(u_in.ld, Inverse(s)) = u_in.gd

\* a successful unification of two objects where the same predicates occur
\* among the add effects and the delete effects, with a two-place atom
UnifySoundnessWitness ==
    /\ pc = "unify_done"
    /\ u_out.suc
    /\ Cardinality(DOMAIN u_out.sub) = 2
    /\ u_in.goa # << >>
    /\ \E a \in u_in.ga, d \in u_in.gd : a.pred = d.pred /\ Len(a.args) = 2

\* C3: partition consistency. Every transition stored in a partition unifies
\* (option arguments, add effects and delete effects together) against the
\* partition's lifted effects and option variables, and 'assert suc' of
\* _learn_preconditions never fails.
PartitionConsistency ==
    /\ error # "suc"
    /\ \A i \in DOMAIN partitions : \A j \in DOMAIN partitions[i] :
        LET tr == partitions[i][j].transition
        IN  \E s \in [EffectObjects(tr) -> AtomObjects(add_effects[i] \cup delete_effects[i])
                                              \cup Range(option_args[i])] :
                /\ \A x, y \in DOMAIN s : s[x] = s[y] => x = y
                /\ SubstituteAll(tr.add_effects, s) = add_effects[i]
                /\ SubstituteAll(tr.delete_effects, s) = delete_effects[i]
                /\ [k \in DOMAIN tr.option.objects |-> s[tr.option.objects[k]]] = option_args[i]

\* the operators of an option are learned from two partitions, one of them
\* with a member that joined it by unification and has delete effects
PartitionConsistencyWitness ==
    /\ pc = "done"
    /\ Len(partitions) >= 2
    /\ operators # << >>
    /\ \E i \in DOMAIN partitions :
        /\ Len(partitions[i]) >= 2
        /\ delete_effects[i] # {}
        /\ add_effects[i] # {}

\* the partitions a transition unifies with
Unifiable(tr) ==
    {i \in DOMAIN partitions :
        _unify(tr.add_effects, tr.delete_effects, tr.option.objects,
               add_effects[i], delete_effects[i], option_args[i]) # {}}

\* C4: first-fit partitioning. One pass of the loop of _partition_transitions
\* appends the next transition, in arrival order, to the lowest-indexed
\* partition it unifies with, or, when it unifies with none, appends a new
\* partition holding that transition alone; the lifted effects and option
\* variables of the existing partitions stay as they are and no member is
\* moved or removed.
FirstFit ==
    [][(pc = "partition" /\ t_idx' = t_idx + 1) =>
        LET tr == CurTransitions[t_idx]
            n == Len(partitions)
        IN  /\ \A i \in DOMAIN partitions :
                /\ option_args'[i] = option_args[i]
                /\ add_effects'[i] = add_effects[i]
                /\ delete_effects'[i] = delete_effects[i]
                /\ SubSeq(partitions'[i], 1, Len(partitions[i])) = partitions[i]
            /\ IF Unifiable(tr) # {}
               THEN LET i == CHOOSE i \in Unifiable(tr) : \A k \in Unifiable(tr) : i <= k
                    IN  /\ Len(partitions') = n /\ Len(add_effects') = n
                        /\ Len(partitions'[i]) = Len(partitions[i]) + 1
                        /\ partitions'[i][Len(partitions'[i])].transition = tr
                        /\ \A k \in DOMAIN partitions : k # i => partitions'[k] = partitions[k]
               ELSE /\ Len(partitions') = n + 1 /\ Len(add_effects') = n + 1
                    /\ Len(delete_effects') = n + 1 /\ Len(option_args') = n + 1
                    /\ Len(partitions'[n + 1]) = 1
                    /\ partitions'[n + 1][1].transition = tr
    ]_vars

\* the third transition of an option has joined the second of two partitions
FirstFitWitness ==
    /\ pc = "operators"
    /\ Len(partitions) = 2
    /\ Len(partitions[1]) = 1
    /\ Len(partitions[2]) = 2
    /\ partitions[2][2].transition = CurTransitions[3]

\* C5: precondition intersection law. The preconditions _learn_preconditions
\* returns for a partition are exactly the atoms that, for every member, are
\* among the member's pre-transition atoms over objects of its effects or
\* option arguments, lifted through the substitution _unify returned for that
\* member; the set may be empty.
PreconditionIntersection ==
    pc \in {"preconditions", "sampler_data"} =>
        LET part == partitions[sd.partition_idx]
            lifted(j) ==
                {[pred |-> a.pred,
                  args |-> [n \in DOMAIN a.args |-> sd.subs[j][a.args[n]]]] :
                    a \in {b \in part[j].transition.atoms :
                            Range(b.args) \subseteq EffectObjects(part[j].transition)}}
        IN  /\ \A j \in DOMAIN part : sd.preconditions \subseteq lifted(j)
            /\ \A a \in lifted(1) :
                    (\A j \in DOMAIN part : a \in lifted(j)) => a \in sd.preconditions

\* a partition of two members over two variables whose preconditions are
\* not empty and are fewer than the lifted atoms of its first member
PreconditionIntersectionWitness ==
    /\ pc = "preconditions"
    /\ Len(partitions[sd.partition_idx]) = 2
    /\ Len(sd.variables) = 2
    /\ sd.preconditions # {}
    /\ sd.preconditions # LiftedAtoms(partitions[sd.partition_idx][1].transition, sd.subs[1])

\* the grounded effects of the target partition under zip(variables, g)
GroundedEffects(atoms, variables, g) ==
    {[pred |-> a.pred,
      args |-> [n \in DOMAIN a.args |->
                    g[CHOOSE k \in DOMAIN variables : variables[k] = a.args[n]]]] :
        a \in atoms}

\* the grounding that the recorded substitution of a member gives the variables
RecordedGrounding(m, variables) ==
    [k \in DOMAIN variables |-> CHOOSE o \in DOMAIN m.sub : m.sub[o] = variables[k]]

InData(data, idx, j, g) ==
    \E e \in data : e.part = idx /\ e.member = j /\ e.grounding = g

\* C6: sampler example exclusivity. A (transition, grounding) pair of any
\* partition is among the negatives exactly when it is not the target
\* partition's own recorded grounding and the target's grounded add effects
\* and delete effects are not both subsets of the transition's; so a
\* transition whose effects include the target's never gives a negative.
SamplerExclusivity ==
    pc = "sampler_data" =>
        \A idx \in DOMAIN partitions : \A j \in DOMAIN partitions[idx] :
            \A g \in ObjectCombinations(DOMAIN partitions[idx][j].transition.state,
                                        Len(sd.variables)) :
                LET tr == partitions[idx][j].transition
                    own == /\ idx = sd.partition_idx
                           /\ g = RecordedGrounding(partitions[idx][j], sd.variables)
                    achieved ==
                        /\ GroundedEffects(add_effects[sd.partition_idx], sd.variables, g)
                                \subseteq tr.add_effects
                        /\ GroundedEffects(delete_effects[sd.partition_idx], sd.variables, g)
                                \subseteq tr.delete_effects
                IN  InData(sd.negative_data, idx, j, g) <=> (~own /\ ~achieved)

\* the example of the test: the partition that adds Pred0 has one positive
\* and one negative; or the partition without effects has one positive and no
\* negative although the other transition has effects
SamplerExclusivityWitness ==
    /\ pc = "sampler_data"
    /\ Len(partitions) = 2
    /\ DOMAIN dataset.states[1] = {1}
    /\ Len(partitions[1]) = 1 /\ Len(partitions[2]) = 1
    /\ add_effects[sd.partition_idx] = {} /\ delete_effects[sd.partition_idx] = {}
    /\ add_effects[3 - sd.partition_idx] = {[pred |-> Pred0.name, args |-> <<0>>]}
    /\ Cardinality(sd.positive_data) = 1
    /\ sd.negative_data = {}

\* C7: every member of the target partition gives exactly one positive, its
\* recorded grounding, no transition of another partition gives a positive,
\* the positives are as many as the members (the final assertion holds), and
\* no (transition, grounding) pair is both a positive and a negative.
SamplerPositives ==
    /\ error # "len(positive_data) == len(transitions[partition_idx])"
    /\ pc = "sampler_data" =>
        /\ \A j \in DOMAIN partitions[sd.partition_idx] :
            /\ Cardinality({e \in sd.positive_data : e.member = j}) = 1
            /\ \A e \in sd.positive_data : e.member = j =>
                    e.grounding = RecordedGrounding(partitions[sd.partition_idx][j],
                                                    sd.variables)
        /\ \A e \in sd.positive_data : e.part = sd.partition_idx
        /\ Cardinality(sd.positive_data) = Len(partitions[sd.partition_idx])
        /\ \A e \in sd.positive_data :
                ~InData(sd.negative_data, e.part, e.member, e.grounding)

\* a target partition of two members over two variables, one of them recorded
\* under a substitution that is not the sorted one, with negatives from
\* another partition
SamplerPositivesWitness ==
    /\ pc = "sampler_data"
    /\ Len(partitions[sd.partition_idx]) >= 2
    /\ Len(sd.variables) = 2
    /\ \E e \in sd.positive_data : e.grounding # Sorted(Range(e.grounding))
    /\ \E e \in sd.negative_data : e.part # sd.partition_idx

\* floor(ratio x n), the ratio in hundredths: the m with m <= ratio x n < m + 1
IsFloor(m, ratio, n) == 100 * m <= ratio * n /\ ratio * n < 100 * (m + 1)

\* the atoms the teacher sees in state j of trajectory i of the dataset
TeacherAtoms(i, j) ==
    Abstract(dataset[i][j], interactive.teacher.predicates_to_learn)

\* C13: When create_teacher_dataset has run over the dataset, its output has
\* one trajectory per input trajectory and one atom set per state, and the atom
\* set of a state that yields n ground atoms under the predicates to learn
\* holds exactly floor(ratio x n) distinct atoms, all from that state's
\* abstraction.
TeacherRatioLaw ==
    pc \in {"loaded", "asked"} =>
        /\ Len(interactive.ground_atom_dataset) = Len(dataset)
        /\ \A i \in DOMAIN dataset :
            /\ Len(interactive.ground_atom_dataset[i]) = Len(dataset[i])
            /\ \A j \in DOMAIN dataset[i] :
                /\ interactive.ground_atom_dataset[i][j] \subseteq TeacherAtoms(i, j)
                /\ IsFloor(Cardinality(interactive.ground_atom_dataset[i][j]),
                           interactive.ratio, Cardinality(TeacherAtoms(i, j)))

\* a dataset of two trajectories was labelled at ratio one half, and a state
\* with three atoms kept one of them
TeacherRatioLawWitness ==
    /\ pc = "loaded"
    /\ interactive.ratio = 50
    /\ Len(dataset) = 2
    /\ \E j \in DOMAIN dataset[1] :
        /\ Cardinality(TeacherAtoms(1, j)) = 3
        /\ Cardinality(interactive.ground_atom_dataset[1][j]) = 1

\* some state of the dataset yields fewer than one atom to sample
DegenerateLabels ==
    \E i \in DOMAIN dataset : \E j \in DOMAIN dataset[i] :
        interactive.ratio * Cardinality(TeacherAtoms(i, j)) < 100

\* C14: When some state of the dataset has floor(ratio x n) < 1, loading the
\* dataset ends with ApproachFailure and never completes; the failure leaves
\* the approach's stored dataset and ground-atom dataset as they were (empty),
\* and nothing runs after it.
DegenerateLabelFailure ==
    [][/\ pc # "failed"
       /\ pc' \in {"loaded", "failed"} =>
            /\ (pc' = "failed") = DegenerateLabels'
            /\ (pc' = "failed") = (interactive'.raised = "ApproachFailure")
            /\ pc' = "failed" =>
                /\ interactive'.dataset = << >>
                /\ interactive'.ground_atom_dataset = << >>]_vars

\* the load failed on the second trajectory, after a first trajectory had been
\* labelled, at a ratio above zero
DegenerateLabelFailureWitness ==
    /\ pc = "failed"
    /\ interactive.raised = "ApproachFailure"
    /\ interactive.ratio > 0
    /\ interactive.load.i = 2
    /\ interactive.load.ground_atoms_dataset # << >>
    /\ interactive.dataset = << >>

\* _get_states_to_ask has just returned or raised
AskedStates == pc = "asked" /\ interactive.result.call = "_get_states_to_ask"

SupportedStrategies == {"all_seen_states", "threshold", "top_k_percent"}

\* C15: _get_states_to_ask raises NotImplementedError exactly when the
\* configured strategy is none of all_seen_states, threshold and
\* top_k_percent, and then it returns no states.
UnsupportedStrategyRaises ==
    AskedStates =>
        /\ (interactive.result.strategy \notin SupportedStrategies)
                = (interactive.result.raised = "NotImplementedError")
        /\ interactive.result.strategy \notin SupportedStrategies =>
                interactive.result.states = << >>
        /\ interactive.result.strategy \in SupportedStrategies =>
                interactive.result.raised = ""

\* the strategy "foo" was configured over a dataset of three states
UnsupportedStrategyRaisesWitness ==
    /\ AskedStates
    /\ interactive.result.strategy = "foo"
    /\ interactive.result.raised = "NotImplementedError"
    /\ Len(Flatten(dataset)) = 3

\* how many atom sets of the ground-atom dataset hold all atoms of state k
SeenCount(k) ==
    Cardinality({ij \in (1..MaxDataStates) \X (1..MaxDataStates) :
        /\ ij[1] \in DOMAIN interactive.ground_atom_dataset
        /\ ij[2] \in DOMAIN interactive.ground_atom_dataset[ij[1]]
        /\ Abstract(Flatten(dataset)[k], CurrentPredicates)
                \subseteq interactive.ground_atom_dataset[ij[1]][ij[2]]})

\* the score of state k, 1 / (1 + SeenCount(k)), is strictly higher than m's
HigherScore(k, m) == SeenCount(k) < SeenCount(m)

\* the indices a sequence of indices holds
Returned == {interactive.result.states[x] : x \in DOMAIN interactive.result.states}

\* C16: Over the n states of the given trajectories, _get_states_to_ask
\* returns all n states under all_seen_states; under threshold exactly the
\* states whose score is at least the threshold, in their order, which is all
\* n states when the threshold is 0; and under top_k_percent exactly
\* floor(pct / 100 x n) different states, none of the omitted states having a
\* strictly higher score than a returned one.
AskStrategySelection ==
    AskedStates =>
        LET n == Len(Flatten(dataset))
            res == interactive.result
        IN  /\ res.strategy = "all_seen_states" => res.states = [k \in 1..n |-> k]
            /\ res.strategy = "threshold" =>
                /\ Returned = {k \in 1..n :
                                res.threshold * (1 + SeenCount(k)) <= 100}
                /\ \A x, y \in DOMAIN res.states :
                        x < y => res.states[x] < res.states[y]
                /\ res.threshold = 0 => res.states = [k \in 1..n |-> k]
            /\ res.strategy = "top_k_percent" =>
                /\ Returned \subseteq 1..n
                /\ Cardinality(Returned) = Len(res.states)
                /\ 100 * Len(res.states) <= res.pct * n
                /\ res.pct * n < 100 * (Len(res.states) + 1)
                /\ \A k \in Returned : \A m \in (1..n) \ Returned :
                        ~HigherScore(m, k)

\* top_k_percent returned one state of three, and not the first: a later
\* state had the strictly higher score
AskStrategySelectionWitness ==
    /\ AskedStates
    /\ interactive.result.strategy = "top_k_percent"
    /\ Len(Flatten(dataset)) = 3
    /\ Len(interactive.result.states) = 1
    /\ HigherScore(interactive.result.states[1], 1)

\* the threshold strategy kept some states and dropped others
ThresholdSelects ==
    /\ AskedStates
    /\ interactive.result.strategy = "threshold"
    /\ Returned # {}
    /\ Returned # 1..Len(Flatten(dataset))

\* the predicate of the environment with the given name
OriginalPredicate(name) == CHOOSE p \in {Pred0, Pred1, On} : p.name = name

\* _ask_teacher has just answered
Answered == pc = "asked" /\ interactive.result.call = "_ask_teacher"

\* C17: _ask_teacher(state, atom) returns the truth value of the atom under
\* the original classifier of the predicate with the atom's name, whatever
\* classifier the approach's copy of that predicate carries; every atom of the
\* state's abstraction under the environment's predicates is answered true.
TeacherAnswers ==
    Answered =>
        LET res == interactive.result
        IN  /\ res.answer = Holds(OriginalPredicate(res.ground_atom.pred),
                                  res.state, res.ground_atom.args)
            /\ res.ground_atom \in Abstract(res.state,
                    interactive.teacher.name_to_predicate) => res.answer

\* the approach's own copy of the predicate to learn holds nowhere the
\* original does, relearned or stripped, and the teacher answered true
TeacherAnswersWitness ==
    /\ Answered
    /\ interactive.result.answer
    /\ interactive.result.ground_atom.pred = On.name
    /\ \E p \in interactive.predicates_to_learn :
        /\ p.name = On.name
        /\ p.clf # {}
        /\ ~Holds(p, interactive.result.state, interactive.result.ground_atom.args)

\* the teacher answered true on an atom of a stripped predicate
AnsweredBeforeLearning ==
    /\ Answered
    /\ interactive.result.answer
    /\ \E p \in interactive.predicates_to_learn :
        p.name = interactive.result.ground_atom.pred /\ p.clf = {}

\* the second of two runs with the same seed has returned
BothReturned == pc = "returned" /\ rng.run = 2

\* C12: Two independent runs of a learned sampler with the same seed, models
\* and state return the same parameters: every random choice comes from the
\* seeded generator, none from elsewhere.
Reproducible ==
    BothReturned => smp.params = rng.first.params

\* two runs with the same seed make the same draws from the regressor and the
\* same accept and reject decisions, and return the same parameters whenever
\* neither of them fell back to params_space.sample()
SeededDrawsReproduce ==
    BothReturned =>
        /\ smp.drawn = rng.first.drawn
        /\ smp.num_rejections = rng.first.num_rejections
        /\ smp.sampled = rng.first.sampled
        /\ ~smp.sampled => smp.params = rng.first.params

\* both runs fell back to params_space.sample() and returned different
\* parameters
FallbackDiffers ==
    /\ BothReturned
    /\ smp.sampled
    /\ rng.first.sampled
    /\ smp.drawn = rng.first.drawn
    /\ smp.params # rng.first.params

\* C21: In every invention iteration, _invent_for_operator finds at least one
\* positive example for the full parameter set of every operator it is run on
\* (an operator learned from the same transitions), so the assertion
\* 'How was this operator learned...?' never fails.
PositiveGrounding ==
    /\ error # "How was this operator learned...?"
    /\ inv.call # << >> =>
        /\ ~inv.call.error
        /\ \E d \in inv.call.data : d.pos
        /\ \A q \in DOMAIN inv.call.pos : inv.call.pos[q] >= 1

\* after an invention, an operator is examined that has a positive and a
\* negative example
PositiveGroundingWitness ==
    /\ mode = "invent"
    /\ num_inventions >= 1
    /\ inv.call # << >>
    /\ ~inv.call.error
    /\ \E d \in inv.call.data : d.pos
    /\ \E d \in inv.call.data : ~d.pos

\* an operator over two parameters has a positive example that grounds the
\* parameters out of the order of the objects
UnsortedPositive ==
    /\ inv.call # << >>
    /\ \E d \in inv.call.data : d.pos /\ DOMAIN d.sub = {0, 1} /\ d.sub[0] > d.sub[1]

\* the variables of an operator's preconditions, effects and option arguments
OperatorVariables(op) ==
    AtomObjects(op.preconditions \cup op.add_effects \cup op.delete_effects)
        \cup Range(op.option_vars)

WellFormed(op) ==
    /\ OperatorVariables(op) \subseteq Range(op.parameters)
    /\ op.add_effects \cap op.delete_effects = {}
    /\ op.add_effects \cup op.delete_effects # {}

\* C24: Every operator learn_operators_for_option returns has all variables of
\* its preconditions, add effects, delete effects and option arguments among
\* its parameters, disjoint add and delete effects, and not both of them
\* empty; an operator is only ever learned from a partition of at least
\* min_data_for_operator members with an effect.
OperatorWellFormed ==
    [][/\ \A k \in DOMAIN operators' : WellFormed(operators'[k])
       /\ \A k \in DOMAIN all_operators' : WellFormed(all_operators'[k])
       /\ Len(operators') > Len(operators) =>
            /\ Len(partitions[part_idx]) >= min_data_for_operator
            /\ add_effects[part_idx] \cup delete_effects[part_idx] # {}
            /\ operators'[Len(operators')].add_effects = add_effects[part_idx]
            /\ operators'[Len(operators')].delete_effects = delete_effects[part_idx]]_vars

\* with min_data_for_operator 2, an operator with a precondition was learned
\* from a partition of two members after a partition of one member with an
\* effect, and a partition without effects, were passed over
OperatorWellFormedWitness ==
    /\ mode = "learn"
    /\ min_data_for_operator = 2
    /\ Len(operators) = 1
    /\ operators[1].preconditions # {}
    /\ Len(partitions[operators[1].part]) = 2
    /\ \E i \in DOMAIN partitions :
        /\ i < operators[1].part
        /\ Len(partitions[i]) = 1

\* a partition without effects was passed over
EmptyEffectsSkipped ==
    /\ mode = "learn"
    /\ pc = "operators"
    /\ \E i \in DOMAIN partitions :
        /\ i < part_idx
        /\ add_effects[i] = {} /\ delete_effects[i] = {}
        /\ Len(partitions[i]) >= min_data_for_operator

\* the target partition of the last _learn_preconditions call
TargetPartition == partitions[sd.partition_idx]

\* the preconditions, grounded through the inverse of the member's recorded
\* substitution, hold in the member's state
HoldUnderRecorded(m) ==
    \A pre \in sd.preconditions :
        AtomHolds(Substitute(pre, Inverse(m.sub)), m.transition.state, predicates)

\* C27: The preconditions _learn_preconditions returns are lifted through
\* each member's recorded substitution: grounded through its inverse they hold
\* in the member's pre-state, all members yield the same variables, and the
\* assertions of _learn_preconditions and _create_sampler_data never fail,
\* also when the effects unify in more than one way.
PreconditionsUnderRecorded ==
    /\ error = ""
    /\ pc \in {"preconditions", "sampler_data"} =>
        \A j \in DOMAIN TargetPartition :
            /\ sd.subs[j] = TargetPartition[j].sub
            /\ HoldUnderRecorded(TargetPartition[j])
            /\ Sorted(Range(TargetPartition[j].sub)) = sd.variables

\* every member after the first is lifted through its recorded substitution
LaterMembersRecorded ==
    pc \in {"preconditions", "sampler_data"} =>
        \A j \in DOMAIN TargetPartition : j > 1 => sd.subs[j] = TargetPartition[j].sub

\* no assertion fails when the first member is lifted through its recorded
\* substitution
RecordedNeverFails ==
    (pc = "error" /\ sd # << >>) => sd.subs[1] # TargetPartition[1].sub

\* the assertion of _create_sampler_data failed on a partition of one member
\* whose effects unify in two ways
PreconditionAssertionFails ==
    /\ pc = "error"
    /\ error = "pre.predicate.holds"
    /\ Len(TargetPartition) = 1
    /\ sd.subs[1] # TargetPartition[1].sub

\* C28: the sampler's output is in bounds and its loop is bounded. For every
\* regressor stream, every classifier and every configured maximum of tries
\* that is not negative, the sampler has never drawn more than
\* max_rejection_sampling_tries + 1 candidates, and the parameter vector it
\* returns lies in the option's parameter space; a call that has not yet
\* returned can always take a step.
SamplerInBounds ==
    mode = "sampler" =>
        /\ smp.max_rejection_sampling_tries >= 0
        /\ Len(smp.drawn) <= smp.max_rejection_sampling_tries + 1
        /\ smp.num_rejections <= smp.max_rejection_sampling_tries + 1
        /\ pc = "returned" => smp.params \in ParamsSpace
        /\ pc = "sample" => ENABLED (SamplerDraw \/ SamplerExhausted)

\* every try drew a candidate out of bounds, and the sampler returned a
\* sample of the parameter space
SamplerInBoundsWitness ==
    /\ mode = "sampler"
    /\ pc = "returned"
    /\ rng.run = 1
    /\ smp.sampled
    /\ Len(smp.drawn) = smp.max_rejection_sampling_tries + 1
    /\ \A k \in 1..Len(smp.drawn) : smp.drawn[k] \notin ParamsSpace
    /\ smp.params \in ParamsSpace

RefusedAfterFailure ==
    /\ mode = "reload"
    /\ pc = "failed"
    /\ interactive.raised = "AssertionError"
    /\ interactive.dataset = << >>

\* the (name, types) signatures of a set of predicates
Signatures(preds) == {<<p.name, p.arity>> : p \in preds}

\* C22: no cheating. At every point of a run every predicate in the
\* approach's own set of predicates to learn has a classifier that
\* strip_predicate made, which holds nowhere, or one that
\* _relearn_predicates_and_operators made from a fitted model; the signatures
\* of the set are those of the teacher's predicates to learn from the
\* construction on, and no predicate of the set has the name of a known one.
NoCheating ==
    mode = "interactive" =>
        /\ \A p \in interactive.predicates_to_learn :
            /\ p.name \in DOMAIN interactive.made_by
            /\ interactive.made_by[p.name] \in
                    {"strip_predicate", "LearnedPredicateClassifier"}
            /\ interactive.made_by[p.name] = "strip_predicate" => p.clf = {}
        /\ Signatures(interactive.predicates_to_learn)
                = Signatures(interactive.teacher.predicates_to_learn)
        /\ Cardinality(interactive.predicates_to_learn)
                = Cardinality(interactive.teacher.predicates_to_learn)
        /\ {p.name : p \in interactive.predicates_to_learn}
                \cap {p.name : p \in interactive.known_predicates} = {}
        /\ interactive.known_predicates \cup interactive.teacher.predicates_to_learn
                = interactive.teacher.name_to_predicate

\* with a known predicate beside them, the predicates to learn were relearned
\* from a fit that agrees with the teacher's labels everywhere: their
\* classifiers are fitted ones of the same extension as the teacher's
NoCheatingWitness ==
    /\ mode = "interactive"
    /\ pc = "loaded"
    /\ interactive.known_predicates # {}
    /\ interactive.predicates_to_learn = interactive.teacher.predicates_to_learn
    /\ \A p \in interactive.predicates_to_learn :
            interactive.made_by[p.name] = "LearnedPredicateClassifier"

\* C23: planner failure retry. In an episode the candidate tasks are in
\* order of descending score; the candidate being solved or rolled out is
\* the one after the candidates that failed, each with a planner timeout or
\* failure; and the candidates are all tried exactly when the episode has
\* raised ApproachFailure.
PlannerRetry ==
    mode = "active" =>
        LET locals == interactive.locals
            task_list == locals.task_list
            count(n) == GoalCount(interactive.ground_atom_dataset, task_list[n])
        IN  /\ pc \in {"solve", "rollout"} =>
                /\ task_list # << >>
                /\ \A a, b \in DOMAIN task_list : a < b => count(a) <= count(b)
                /\ locals.k \in DOMAIN task_list
                /\ Len(locals.tried) = locals.k - 1
                /\ \A n \in DOMAIN locals.tried :
                        locals.tried[n] \in {"ApproachTimeout", "ApproachFailure"}
                /\ interactive.raised = ""
            /\ (task_list # << >> /\ Len(locals.tried) = Len(task_list)) =>
                /\ pc = "failed"
                /\ interactive.raised = "ApproachFailure"
                /\ Len(locals.rolled) = 0
            /\ (pc = "failed" /\ task_list # << >> /\ locals.rolled = << >>) =>
                /\ interactive.raised = "ApproachFailure"
                /\ Len(locals.tried) = Len(task_list)

\* the first of two candidates, of a strictly higher score than the second,
\* timed out, and the policy of the second is about to be rolled out
PlannerRetryWitness ==
    /\ mode = "active"
    /\ pc = "rollout"
    /\ Len(interactive.locals.task_list) = 2
    /\ GoalCount(interactive.ground_atom_dataset, interactive.locals.task_list[1])
            < GoalCount(interactive.ground_atom_dataset, interactive.locals.task_list[2])
    /\ interactive.locals.k = 2
    /\ interactive.locals.tried = <<"ApproachTimeout">>

\* both candidates failed and the episode raised ApproachFailure
NoSolvableCandidate ==
    /\ mode = "active"
    /\ pc = "failed"
    /\ interactive.raised = "ApproachFailure"
    /\ interactive.locals.tried = <<"ApproachFailure", "ApproachTimeout">>

\* the states the stored label sets were given for: those of the loaded
\* dataset, then the state of every positive answer
LabelStates == dataset \o interactive.locals.labelled

\* every stored label set has, at its index in the stored dataset, the state
\* it was given for
Aligned ==
    \A i \in DOMAIN interactive.ground_atom_dataset :
        /\ i \in DOMAIN interactive.dataset
        /\ \A j \in DOMAIN interactive.ground_atom_dataset[i] :
            /\ j \in DOMAIN interactive.dataset[i]
            /\ interactive.dataset[i][j] = LabelStates[i][j]

\* C25: label/state alignment. After the load and after any number of
\* episodes, every label set _ground_atom_dataset[i][j] is the label set of
\* the state _dataset[i][0][j].
LabelStateAlignment == mode = "active" => Aligned

\* the two lists are aligned as long as no episode has stored trajectories
AlignedUntilStored ==
    (mode = "active" /\ interactive.locals.stored = << >>) => Aligned

\* a relearning has taken as a positive example of a predicate a vector that
\* the teacher's classifier of that predicate rejects
WrongPositiveExample ==
    /\ mode = "active"
    /\ pc = "episode"
    /\ \E n \in DOMAIN interactive.locals.examples :
        \E v \in interactive.locals.examples[n].positive :
            v \notin PredicateNamed(interactive.teacher.name_to_predicate, n).clf

\* the vectors of every combination of objects of every stored state
StoredVectors(arity) ==
    UNION {{Vec(s, c) : c \in ObjectCombinations(DOMAIN s, arity)} :
                s \in Range(Flatten(interactive.dataset))}

\* the relearning that last ran has left its examples, and the stored dataset
\* is the one it read
Relearned == mode = "active" /\ pc = "episode"

\* C26: unlabeled is negative. After a relearning, for every predicate to
\* learn, the negative examples are the vectors of the combinations of the
\* stored states that equal no positive example: every such vector is a
\* negative example and no vector that equals a positive example is one.
UnlabeledIsNegative ==
    Relearned =>
        \A p \in interactive.predicates_to_learn :
            LET e == interactive.locals.examples[p.name]
            IN  /\ StoredVectors(p.arity) \ e.positive \subseteq Range(e.negative)
                /\ Range(e.negative) \cap e.positive = {}

\* no vector that equals a positive example is a negative example
NoPositiveIsNegative ==
    Relearned =>
        \A p \in interactive.predicates_to_learn :
            LET e == interactive.locals.examples[p.name]
            IN  Range(e.negative) \cap e.positive = {}

\* at most one negative example is added for a state
OneNegativePerState ==
    Relearned =>
        \A p \in interactive.predicates_to_learn :
            Len(interactive.locals.examples[p.name].negative)
                <= Len(Flatten(interactive.dataset))

\* a predicate without positive examples got as negatives the vector left in
\* ex by the loop of another predicate
StaleNegative ==
    /\ Relearned
    /\ \E p \in interactive.predicates_to_learn :
        \E v \in Range(interactive.locals.examples[p.name].negative) :
            Len(v) # p.arity

\* the relearning began with a predicate without positive examples
UnboundExample ==
    /\ mode = "active"
    /\ pc = "failed"
    /\ interactive.raised = "UnboundLocalError"

\* C30: no collected trajectory is lost. When learn_from_offline_dataset
\* returns, every trajectory an episode rolled out has been stored in the
\* dataset, none is left waiting in new_trajectories, and the stored dataset
\* is the loaded one, the rolled-out trajectories and the states of the
\* positive answers.
NoTrajectoryLost ==
    (mode = "active" /\ pc = "returned") =>
        /\ interactive.locals.stored = interactive.locals.rolled
        /\ interactive.locals.new_trajectories = << >>
        /\ Len(interactive.dataset) = Len(dataset) + Len(interactive.locals.rolled)
                                        + Len(interactive.locals.labelled)

\* nothing is lost when the number of episodes is a multiple of
\* interactive_relearn_every
NoneLostWhenMultiple ==
    (/\ mode = "active"
     /\ pc = "returned"
     /\ interactive.locals.cfg.interactive_num_episodes
            % interactive.locals.cfg.interactive_relearn_every = 0) =>
        /\ interactive.locals.stored = interactive.locals.rolled
        /\ interactive.locals.new_trajectories = << >>

\* the method has returned with a rolled-out trajectory that was never stored
TrajectoryLost ==
    /\ mode = "active"
    /\ pc = "returned"
    /\ interactive.locals.rolled # << >>
    /\ interactive.locals.stored = << >>
    /\ interactive.dataset = dataset

====
